---- MODULE Spec2Model ----
(***************************************************************************)
(* Verification model of the Python tooling of the Monero/Starknet atomic  *)
(* swap: point decompression, fake-GLV hint generation and checking, the   *)
(* DLEQ prover, and the conversions of the scripts around them (challenge, *)
(* nonce, s2 encoding, hex strings, scalars, limbs, square roots, the      *)
(* test-vector file) (tools/*.py, fix_hints.py).                           *)
(*                                                                         *)
(* Scale.  The tools work on Ed25519 (p = 2^255 - 19, 32-byte encodings,   *)
(* 128-bit halves).  The model keeps every formula of the code and scales  *)
(* the parameters to a curve of the same shape that TLC can enumerate:     *)
(*   -x^2 + y^2 = 1 + d x^2 y^2 over GF(109), 109 = 5 (mod 8), d = 10 a    *)
(*   non-square (as for Ed25519), 116 = 4 * 29 points, prime order 29;     *)
(*   an encoding is 2 bytes of 4 bits (8 bits: y in bits 0-6, sign of x    *)
(*   in bit 7, so 128 - 109 = 19 values of the y field are not reduced,    *)
(*   as 2^255 - p = 19); a "128-bit half" is 4 bits; a limb is 3 bits.     *)
(* The library calls (hashlib, garaga) are modelled by stand-ins that are  *)
(* named as such where they are defined.                                   *)
(***************************************************************************)
EXTENDS Integers, Sequences, FiniteSets, TLC

-----------------------------------------------------------------------------
(* Program constants (scaled as described above).                          *)

\* P = 2**255 - 19, the field prime
P == 109
\* D = -121665/121666 mod P, the twisted Edwards d coefficient (a non-square)
D == 10
\* ED25519_ORDER = 2**252 + 27742..., the prime order of the base point
ED25519_ORDER == 29
\* 1 << 255: the sign bit of a compressed point
BIT255 == 128
\* 1 << 128: the high half of a u256, and the sign flag of an encoded s2
U128 == 16
\* a byte holds 0 .. BYTE - 1
BYTE == 16
\* a compressed point, a digest, a secret: 32 bytes
NBYTES == 2
\* the Ed25519 base point G (its x and y), and Y = 2*G
G_X == 5
G_Y == 20

-----------------------------------------------------------------------------
(* Bounds of the model.                                                    *)

\* sqrt_hint_high ranges over 0 .. MaxHintHigh; with 7 the candidate x
\* ranges over 0 .. 127, every field element and the 19 unreduced values
MaxHintHigh == 7

-----------------------------------------------------------------------------
(* Integer and byte helpers: Python's pow, int.from_bytes, int.to_bytes.   *)

RECURSIVE ModPow(_, _, _)
ModPow(b, e, m) ==
    IF e = 0 THEN 1 % m
    ELSE LET h == ModPow(b, e \div 2, m)
         IN  IF e % 2 = 0 THEN (h * h) % m ELSE (((h * h) % m) * (b % m)) % m

RECURSIVE IntFromBytesLE(_)
IntFromBytesLE(bs) ==
    IF bs = <<>> THEN 0 ELSE Head(bs) + BYTE * IntFromBytesLE(Tail(bs))

RECURSIVE IntToBytesLE(_, _)
IntToBytesLE(v, n) ==
    IF n = 0 THEN <<>> ELSE <<v % BYTE>> \o IntToBytesLE(v \div BYTE, n - 1)

\* every string of NBYTES bytes
ByteStrings == [1..NBYTES -> 0..(BYTE - 1)]

-----------------------------------------------------------------------------
(* Results of a decompression: a point, or the exception that was raised.  *)

Point(x, y) == [ok |-> TRUE, err |-> "", x |-> x, y |-> y]
Fail(e) == [ok |-> FALSE, err |-> e, x |-> -1, y |-> -1]

\* the curve equation -x^2 + y^2 = 1 + d x^2 y^2 (mod P)
OnCurve(x, y) == (y * y - x * x - 1 - D * (((x * x) % P) * ((y * y) % P))) % P = 0

\* pow(v, -1, P): Python raises ValueError when v is not invertible;
\* the model returns -1 for the raised exception
PowNeg1(v) == IF v % P = 0 THEN -1 ELSE ModPow(v, P - 2, P)

\* compress_edwards_pt_to_y_compressed_le (garaga): y in bits 0-254, the
\* parity of x in bit 255, 32 bytes little-endian
Compress(x, y) == IntToBytesLE(y + BIT255 * (x % 2), NBYTES)

-----------------------------------------------------------------------------
(* tools/generate_hints_exact.py                                           *)

\* x^2 = (y^2 - 1) / (d y^2 + 1) mod p, the right-hand side of the curve
\* equation solved for x^2 (the denominator is never 0: d is a non-square)
XSquared(y) ==
    LET y2 == (y * y) % P
    IN  (((y2 - 1) % P) * ModPow((D * y2 + 1) % P, P - 2, P)) % P

\* mutant: the parity test reversed (negate when the parity already matches)
decompress_with_garaga_parity_reversed(compressed_hex, sqrt_hint_low, sqrt_hint_high) ==
    LET compressed_int == IntFromBytesLE(compressed_hex)
        sign_bit == (compressed_int \div BIT255) % 2
        y == compressed_int % BIT255
        x0 == (sqrt_hint_low + sqrt_hint_high * U128) % P
        x == IF x0 % 2 = sign_bit THEN (P - x0) % P ELSE x0
    IN  IF (x * x) % P # XSquared(y) THEN Fail("SqrtHintInvalid") ELSE Point(x, y)

decompress_with_garaga(compressed_hex, sqrt_hint_low, sqrt_hint_high) ==
    LET compressed_int == IntFromBytesLE(compressed_hex)
        sign_bit == (compressed_int \div BIT255) % 2
        y == compressed_int % BIT255
        x0 == (sqrt_hint_low + sqrt_hint_high * U128) % P
        y2 == (y * y) % P
        numerator == (y2 - 1) % P
        denominator == (D * y2 + 1) % P
        denominator_inv == ModPow(denominator, P - 2, P)
        x2_expected == (numerator * denominator_inv) % P
        \* if (x % 2) != sign_bit: x = (p - x) % p
        x == IF x0 % 2 # sign_bit THEN (P - x0) % P ELSE x0
        x2_actual == (x * x) % P
        \* "try the other square root"
        x_alt == (P - x) % P
        x2_alt == (x_alt * x_alt) % P
    IN  IF x2_actual # x2_expected
        THEN IF x2_alt = x2_expected THEN Point(x_alt, y)
             ELSE Fail("SqrtHintInvalid")
        ELSE Point(x, y)

-----------------------------------------------------------------------------
(* tools/verify_hint_scalars.py                                            *)

\* mutant: a root of the wrong parity is rejected instead of negated
vhs_decompress_with_garaga_parity_rejected(compressed_hex, sqrt_hint_low, sqrt_hint_high) ==
    LET compressed_int == IntFromBytesLE(compressed_hex)
        sign_bit == (compressed_int \div BIT255) % 2
        y == compressed_int % BIT255
        x == (sqrt_hint_low + sqrt_hint_high * U128) % P
    IN  IF (x * x) % P # XSquared(y) THEN Fail("SqrtHintInvalid")
        ELSE IF x % 2 # sign_bit THEN Fail("SignBitMismatch")
        ELSE Point(x, y)

vhs_decompress_with_garaga(compressed_hex, sqrt_hint_low, sqrt_hint_high) ==
    LET compressed_int == IntFromBytesLE(compressed_hex)
        sign_bit == (compressed_int \div BIT255) % 2
        y == compressed_int % BIT255
        x0 == (sqrt_hint_low + sqrt_hint_high * U128) % P
        y2 == (y * y) % P
        numerator == (y2 - 1) % P
        denominator == (D * y2 + 1) % P
        denominator_inv == ModPow(denominator, P - 2, P)
        x2_expected == (numerator * denominator_inv) % P
        x == IF x0 % 2 # sign_bit THEN (P - x0) % P ELSE x0
        x2_actual == (x * x) % P
        x_alt == (P - x) % P
        x2_alt == (x_alt * x_alt) % P
    IN  IF x2_actual # x2_expected
        THEN IF x2_alt = x2_expected THEN Point(x_alt, y)
             ELSE Fail("SqrtHintInvalid")
        ELSE Point(x, y)

-----------------------------------------------------------------------------
(* tools/regenerate_dleq_hints.py                                          *)

\* mutant: the retry compares the other root's square with the square of
\* the candidate instead of the expected x^2, so it always succeeds
rdh_decompress_edwards_point_retry_accepts(compressed_hex, sqrt_hint_low, sqrt_hint_high) ==
    LET compressed_int == IntFromBytesLE(compressed_hex)
        sign_bit == (compressed_int \div BIT255) % 2
        y == compressed_int % BIT255
        x0 == (sqrt_hint_low + sqrt_hint_high * U128) % P
        x == IF x0 % 2 # sign_bit THEN (P - x0) % P ELSE x0
        x2_actual == (x * x) % P
        x_alt == (P - x) % P
        x2_alt == (x_alt * x_alt) % P
    IN  IF x2_actual # XSquared(y)
        THEN IF x2_alt = x2_actual THEN Point(x_alt, y)
             ELSE Fail("SqrtHintInvalid")
        ELSE Point(x, y)

rdh_decompress_edwards_point(compressed_hex, sqrt_hint_low, sqrt_hint_high) ==
    LET compressed_int == IntFromBytesLE(compressed_hex)
        sign_bit == (compressed_int \div BIT255) % 2
        y == compressed_int % BIT255
        x0 == (sqrt_hint_low + sqrt_hint_high * U128) % P
        y2 == (y * y) % P
        numerator == (y2 - 1) % P
        denominator == (D * y2 + 1) % P
        denominator_inv == ModPow(denominator, P - 2, P)
        x2_expected == (numerator * denominator_inv) % P
        x == IF x0 % 2 # sign_bit THEN (P - x0) % P ELSE x0
        x2_actual == (x * x) % P
        x_alt == (P - x) % P
        x2_alt == (x_alt * x_alt) % P
    IN  IF x2_actual # x2_expected
        THEN IF x2_alt = x2_expected THEN Point(x_alt, y)
             ELSE Fail("SqrtHintInvalid")
        ELSE Point(x, y)

-----------------------------------------------------------------------------
(* tools/regenerate_garaga_hints.py                                        *)

\* returns the root, or -1 for the AssertionError "Square root verification
\* failed"
sqrt_ed25519(n) ==
    LET root0 == ModPow(n, (P + 3) \div 8, P)
        sqrt_m1 == ModPow(2, (P - 1) \div 4, P)
        root == IF (root0 * root0) % P # n % P THEN (root0 * sqrt_m1) % P
                ELSE root0
    IN  IF (root * root) % P = n % P THEN root ELSE -1

decompress_ed25519_point(y_compressed_bytes) ==
    LET y_int == IntFromBytesLE(y_compressed_bytes)
        sign_bit == (y_int \div BIT255) % 2
        y == y_int % BIT255
        y_sq == (y * y) % P
        numerator == (y_sq - 1) % P
        denominator == (D * y_sq + 1) % P
        inv == PowNeg1(denominator)
        x_sq == (numerator * inv) % P
        x0 == sqrt_ed25519(x_sq)
        x == IF x0 % 2 # sign_bit THEN (P - x0) % P ELSE x0
    IN  IF inv = -1 THEN Fail("DivisionByZero")
        ELSE IF x0 = -1 THEN Fail("NoSquareRoot")
        \* assert (x % 2) == sign_bit, "Sign bit mismatch: ..."
        ELSE IF x % 2 # sign_bit THEN Fail("SignBitMismatch")
        ELSE Point(x, y)

\* int_to_u256(value): low and high of the dict
int_to_u256(value) == [low |-> value % U128, high |-> (value \div U128) % U128]

\* generate_sqrt_hint_u256(compressed_hex): the dict returned (low, high,
\* x_full, y_full), or the exception raised
generate_sqrt_hint_u256(compressed_hex) ==
    IF Len(compressed_hex) # NBYTES THEN Fail("ValueError")
    ELSE LET pt == decompress_ed25519_point(compressed_hex)
             x_u256 == int_to_u256(pt.x)
             y_sq == (pt.y * pt.y) % P
             numerator == (y_sq - 1) % P
             denominator == (D * y_sq + 1) % P
             x_sq_expected == (numerator * PowNeg1(denominator)) % P
             x_sq_actual == (pt.x * pt.x) % P
         IN  IF ~pt.ok THEN pt
             ELSE IF pt.x >= P THEN Fail("SqrtHintOutOfRange")
             ELSE IF x_sq_actual # x_sq_expected THEN Fail("SqrtHintInvalid")
             ELSE [ok |-> TRUE, err |-> "", low |-> x_u256.low, high |-> x_u256.high,
                   x_full |-> pt.x, y_full |-> pt.y]

-----------------------------------------------------------------------------
(* tools/generate_correct_sqrt_hints.py                                    *)

\* get_correct_sqrt_hint(compressed_hex): (low, high), or the exception
get_correct_sqrt_hint(compressed_hex) ==
    LET compressed_int == IntFromBytesLE(compressed_hex)
        sign_bit == (compressed_int \div BIT255) % 2
        y == compressed_int % BIT255
        y2 == (y * y) % P
        numerator == (y2 - 1) % P
        denominator == (D * y2 + 1) % P
        inv_denominator == PowNeg1(denominator)
        x2 == (numerator * inv_denominator) % P
        x0 == ModPow(x2, (P + 3) \div 8, P)
        \* if (x * x) % p != x2: x = p - x
        x1 == IF (x0 * x0) % P # x2 THEN P - x0 ELSE x0
        \* if (x & 1) != sign_bit: x = p - x
        x == IF x1 % 2 # sign_bit THEN P - x1 ELSE x1
    IN  IF inv_denominator = -1 THEN Fail("DivisionByZero")
        ELSE IF (x1 * x1) % P # x2 THEN Fail("NoSquareRoot")
        ELSE [ok |-> TRUE, err |-> "", low |-> x % U128, high |-> x \div U128]

-----------------------------------------------------------------------------
(* tools/fix_all_hints.py                                                  *)

\* I = pow(2, (P - 1) // 4, P), a square root of -1
I == ModPow(2, (P - 1) \div 4, P)

\* returns the root, or -1 for the ValueError "No square root for ..."
sqrt_mod_p(x) ==
    LET candidate == ModPow(x, (P + 3) \div 8, P)
        candidate2 == (candidate * I) % P
    IN  IF (candidate * candidate) % P = x % P THEN candidate
        ELSE IF (candidate2 * candidate2) % P = x % P THEN candidate2
        ELSE -1

fah_decompress_edwards_point(compressed_hex) ==
    LET compressed_int == IntFromBytesLE(compressed_hex)
        sign_bit == (compressed_int \div BIT255) % 2
        y == compressed_int % BIT255
        y2 == (y * y) % P
        numerator == (y2 - 1) % P
        denominator == (D * y2 + 1) % P
        inv == PowNeg1(denominator)
        x2 == (numerator * inv) % P
        x0 == sqrt_mod_p(x2)
        \* if (x & 1) != sign_bit: x = P - x     (not reduced mod P)
        x == IF x0 % 2 # sign_bit THEN P - x0 ELSE x0
    IN  IF inv = -1 THEN Fail("DivisionByZero")
        ELSE IF x0 = -1 THEN Fail("NoSquareRoot")
        ELSE Point(x, y)

-----------------------------------------------------------------------------
(* garaga (library): the group law and get_fake_glv_hint.  The library is   *)
(* not part of the repository; these stand-ins keep what the tools rely on. *)

\* the generators of the tools: G = get_nG(ED25519, 1) and Y = 2*G
G == <<G_X, G_Y>>

\* G1Point.add, on the twisted Edwards form of the curve (a = -1)
EdAdd(p1, p2) ==
    LET x1 == p1[1]
        y1 == p1[2]
        x2 == p2[1]
        y2 == p2[2]
        dxy == (D * (((x1 * x2) % P) * ((y1 * y2) % P))) % P
        x3 == ((x1 * y2 + x2 * y1) * ModPow((1 + dxy) % P, P - 2, P)) % P
        y3 == ((y1 * y2 + x1 * x2) * ModPow((1 - dxy) % P, P - 2, P)) % P
    IN  <<x3, y3>>

\* G1Point.scalar_mul / msm_g1 with one point: double and add
RECURSIVE ScalarMul(_, _)
ScalarMul(n, pt) ==
    IF n = 0 THEN <<0, 1>>
    ELSE LET h == ScalarMul(n \div 2, pt)
             hh == EdAdd(h, h)
         IN  IF n % 2 = 0 THEN hh ELSE EdAdd(hh, pt)

Y == ScalarMul(2, G)

\* garaga's signed encoding of s2: a negative s2 is 2^128 + |s2|
encode_value_signed(s2) == IF s2 >= 0 THEN s2 ELSE U128 - s2

\* the decomposition garaga finds for a scalar that is not 0 mod l:
\* <<s1, s2>> with s1 + scalar*s2 = 0 (mod l), 0 < s1 < 2^128,
\* 0 < |s2| < 2^128 (here: the one of least |s2|)
RECURSIVE scalar_to_s1s2(_, _)
scalar_to_s1s2(scalar, m) ==
    LET pos == (scalar * m) % ED25519_ORDER
        neg == (ED25519_ORDER - pos) % ED25519_ORDER
    IN  IF neg \in 1..(U128 - 1) THEN <<neg, m>>
        ELSE IF pos \in 1..(U128 - 1) THEN <<pos, -m>>
        ELSE scalar_to_s1s2(scalar, m + 1)

\* for a scalar that is 0 mod l no such decomposition exists; what the
\* library does then is not known here: it raises ("raise"), or it returns
\* the point at infinity with s1 = s2 = 0 ("return")
GaragaOnZero == {"raise", "return"}

\* garaga.hints.fake_glv.get_fake_glv_hint(point, scalar), when it returns:
\* (Q, s1, s2_encoded) with Q = scalar * point
garaga_get_fake_glv_hint(point, scalar) ==
    IF scalar % ED25519_ORDER = 0 THEN <<<<0, 1>>, 0, 0>>
    ELSE LET s1s2 == scalar_to_s1s2(scalar, 1)
         IN  <<ScalarMul(scalar % ED25519_ORDER, point), s1s2[1],
               encode_value_signed(s1s2[2])>>

-----------------------------------------------------------------------------
(* tools/fix_all_hints.py: hints                                            *)

\* 1 << 96: a u384 is 4 limbs of 96 bits
LIMB == 8

int_to_u384_limbs(value) ==
    [i \in 1..4 |-> (value \div (LIMB ^ (i - 1))) % LIMB]

\* line 108 of get_fake_glv_hint: s2 if s2 >= 0 else (1 << 128) + s2
fah_encode_s2(s2) == IF s2 >= 0 THEN s2 ELSE U128 + s2

fah_get_fake_glv_hint(point_x, point_y, scalar) ==
    LET s1 == scalar % ED25519_ORDER
        s2 == 0
        s2_encoded == fah_encode_s2(s2)
        \* "use the point coordinates as placeholder"
        x_limbs == int_to_u384_limbs(point_x)
        y_limbs == int_to_u384_limbs(point_y)
    IN  x_limbs \o y_limbs \o <<s1, s2_encoded>>

-----------------------------------------------------------------------------
(* tools/generate_dleq_hints.py                                             *)

\* mutant: limb1 is not masked
u384_to_cairo_tuple_limb1_unmasked(value) ==
    <<value % LIMB, value \div LIMB,
      (value \div (LIMB ^ 2)) % LIMB, (value \div (LIMB ^ 3)) % LIMB>>

\* u384_to_cairo_tuple(value): the four 96-bit limbs, low limb first
u384_to_cairo_tuple(value) ==
    <<value % LIMB, (value \div LIMB) % LIMB,
      (value \div (LIMB ^ 2)) % LIMB, (value \div (LIMB ^ 3)) % LIMB>>

\* parse_point_from_limbs.limbs_to_int
limbs_to_int(limbs) ==
    limbs[1] + limbs[2] * LIMB + limbs[3] * (LIMB ^ 2) + limbs[4] * (LIMB ^ 3)

\* the hint_felts of generate_hint_for_scalar_and_base
generate_hint_for_scalar_and_base(scalar, base_point) ==
    LET scalar_n == scalar % ED25519_ORDER
        h == garaga_get_fake_glv_hint(base_point, scalar_n)
        Q_x_limbs == u384_to_cairo_tuple(h[1][1])
        Q_y_limbs == u384_to_cairo_tuple(h[1][2])
    IN  Q_x_limbs \o Q_y_limbs \o <<h[2], h[3]>>

-----------------------------------------------------------------------------
(* tools/verify_fake_glv_decomposition.py                                   *)

decode(encoded) ==
    IF encoded >= U128 THEN -(encoded - U128) ELSE encoded

\* verify_hint(point, scalar, hint, name): TRUE / FALSE as returned;
\* garaga_raises: the get_fake_glv_hint call inside the try raised
verify_hint(point, scalar, hint, garaga_raises) ==
    IF garaga_raises THEN FALSE
    ELSE LET s1_actual == hint[9]
             s2_actual == hint[10]
             s2_decoded == decode(s2_actual)
             check == (s1_actual + scalar * s2_decoded) % ED25519_ORDER
         IN  IF check # 0 THEN FALSE
             ELSE IF s1_actual <= 0 THEN FALSE
             ELSE IF s2_decoded = 0 THEN FALSE
             ELSE TRUE

-----------------------------------------------------------------------------
(* tools/verify_hint.py (a script: the module level is the routine)         *)

\* expected_hint is the hint garaga gives for (G, scalar); the result is
\* "passed" or the message of the check that exits
vh_verify(scalar, hint, expected_hint) ==
    LET s1 == hint[9]
        s2 == hint[10]
        verification == (s2 * scalar) % ED25519_ORDER
        s1_mod_n == s1 % ED25519_ORDER
    IN  IF hint # expected_hint THEN "Hint mismatch"
        ELSE IF verification # s1_mod_n THEN "Decomposition invalid"
        ELSE "passed"

-----------------------------------------------------------------------------
(* tools/regenerate_dleq_hints.py: main.verify_hint                         *)

\* lines 272-278 of verify_hint: s2_signed
rdh_decode_s2(s2_encoded) ==
    LET s2_abs == IF s2_encoded >= U128 THEN s2_encoded - U128 ELSE s2_encoded
    IN  IF s2_encoded >= U128 THEN -s2_abs ELSE s2_abs

\* TRUE when "Valid decomposition" is printed
rdh_verify_hint(scalar, s1, s2_encoded) ==
    LET s2_signed == rdh_decode_s2(s2_encoded)
        check == (s1 + scalar * s2_signed) % ED25519_ORDER
    IN  check = 0

-----------------------------------------------------------------------------
(* tools/verify_exact_scalar_match.py (a script)                            *)

\* line 69: s2_signed, decoded with the threshold 1 << 127
vesm_decode_s2(s2_response) ==
    IF s2_response < U128 \div 2 THEN s2_response ELSE -(s2_response - U128)

-----------------------------------------------------------------------------
(* State.                                                                  *)

VARIABLES
    compressed_hex,   \* decompression: the encoding given to the routine
    sqrt_hint,        \* decompression: <<low, high>> of the candidate x
    dpc,              \* decompression: "input", or the routine that ran
    dres,             \* decompression: what the routine returned or raised
    garaga_on_zero,   \* what garaga does with a scalar that is 0 mod l
    h_scalar,         \* hints: the scalar k
    h_base,           \* hints: the base point
    h_hint,           \* hints: the 10 felts [Q.x[4], Q.y[4], s1, s2_encoded]
    h_pc,             \* hints: "input", where the hint came from, "raised"
    h_checker,        \* hints: the routine that checked the hint
    h_verdict,        \* hints: "valid" / "invalid" as the routine reported
    secret_hex,       \* prover: the secret given on the command line (its bytes)
    adaptor_point_weierstrass,  \* prover: the optional adaptor point, <<>> = None
    garaga_accepts_calls,  \* prover: the library takes the calls as written
    run,              \* prover: the number of the current call
    pc,               \* prover: the position in generate_dleq_proof
    locals,           \* prover: the local variables of the call
    proof,            \* prover: the dict returned
    earlier_runs,     \* prover: what the earlier calls ended with
    verdict,          \* verifier: "" or its result on the proof
    t_args,           \* tools: the inputs given to a routine, one per call
    t_routine,        \* tools: "input", or the routine that ran
    t_results         \* tools: what each call returned or raised

dvars == <<compressed_hex, sqrt_hint, dpc, dres>>
hvars == <<h_scalar, h_base, h_hint, h_pc, h_checker, h_verdict>>
pvars == <<secret_hex, adaptor_point_weierstrass, garaga_accepts_calls, run, pc,
           locals, proof, earlier_runs, verdict>>
tvars == <<t_args, t_routine, t_results>>
vars == <<dvars, garaga_on_zero, hvars, pvars, tvars>>

\* no decompression is run
DecIdle ==
    /\ compressed_hex = <<>>
    /\ sqrt_hint = <<0, 0>>
    /\ dpc = "idle"
    /\ dres = Fail("")

\* no hint is generated or checked
HintIdle ==
    /\ h_scalar = 0
    /\ h_base = G
    /\ h_hint = <<>>
    /\ h_pc = "idle"
    /\ h_checker = ""
    /\ h_verdict = ""

\* the locals of generate_dleq_proof before they are assigned
NoLocals ==
    [secret_scalar |-> -1, hashlock |-> <<>>, T |-> <<>>, U |-> <<>>, k |-> -1,
     R1 |-> <<>>, R2 |-> <<>>, challenge |-> -1, response |-> -1]

\* no dict was returned
NoProof ==
    [secret_hex |-> <<>>, hashlock_u32 |-> <<>>,
     adaptor_point_compressed |-> [low |-> 0, high |-> 0],
     adaptor_point_sqrt_hint |-> [low |-> 0, high |-> 0],
     second_point_compressed |-> [low |-> 0, high |-> 0],
     second_point_sqrt_hint |-> [low |-> 0, high |-> 0],
     challenge |-> -1, response |-> -1,
     g_compressed |-> [low |-> 0, high |-> 0],
     y_compressed |-> [low |-> 0, high |-> 0],
     r1_compressed |-> [low |-> 0, high |-> 0],
     r1_sqrt_hint |-> [low |-> 0, high |-> 0],
     r2_compressed |-> [low |-> 0, high |-> 0],
     r2_sqrt_hint |-> [low |-> 0, high |-> 0],
     s_hint_for_g |-> <<>>, s_hint_for_y |-> <<>>,
     c_neg_hint_for_t |-> <<>>, c_neg_hint_for_u |-> <<>>]

\* the prover is not called
ProverIdle ==
    /\ secret_hex = <<>>
    /\ adaptor_point_weierstrass = <<>>
    /\ garaga_accepts_calls = TRUE
    /\ run = 0
    /\ pc = "idle"
    /\ locals = NoLocals
    /\ proof = NoProof
    /\ earlier_runs = <<>>
    /\ verdict = ""

\* no routine of the other tools is called
ToolIdle ==
    /\ t_args = <<>>
    /\ t_routine = "idle"
    /\ t_results = <<>>

-----------------------------------------------------------------------------
(* Decompression: one routine applied to one input.                        *)

DecInit ==
    /\ compressed_hex \in ByteStrings
    /\ sqrt_hint \in (0..(U128 - 1)) \X (0..MaxHintHigh)
    /\ dpc = "input"
    /\ dres = Fail("")
    /\ garaga_on_zero = "raise"
    /\ HintIdle
    /\ ProverIdle
    /\ ToolIdle

RunDecompressWithGaraga ==
    /\ dpc = "input"
    /\ dpc' = "generate_hints_exact"
    /\ dres' = decompress_with_garaga(compressed_hex, sqrt_hint[1], sqrt_hint[2])
    /\ UNCHANGED <<compressed_hex, sqrt_hint, garaga_on_zero, hvars, pvars, tvars>>

RunVhsDecompressWithGaraga ==
    /\ dpc = "input"
    /\ dpc' = "verify_hint_scalars"
    /\ dres' = vhs_decompress_with_garaga(compressed_hex, sqrt_hint[1], sqrt_hint[2])
    /\ UNCHANGED <<compressed_hex, sqrt_hint, garaga_on_zero, hvars, pvars, tvars>>

RunRdhDecompressEdwardsPoint ==
    /\ dpc = "input"
    /\ dpc' = "regenerate_dleq_hints"
    /\ dres' = rdh_decompress_edwards_point(compressed_hex, sqrt_hint[1], sqrt_hint[2])
    /\ UNCHANGED <<compressed_hex, sqrt_hint, garaga_on_zero, hvars, pvars, tvars>>

RunDecompressEd25519Point ==
    /\ dpc = "input"
    /\ dpc' = "regenerate_garaga_hints"
    /\ dres' = decompress_ed25519_point(compressed_hex)
    /\ UNCHANGED <<compressed_hex, sqrt_hint, garaga_on_zero, hvars, pvars, tvars>>

RunFahDecompressEdwardsPoint ==
    /\ dpc = "input"
    /\ dpc' = "fix_all_hints"
    /\ dres' = fah_decompress_edwards_point(compressed_hex)
    /\ UNCHANGED <<compressed_hex, sqrt_hint, garaga_on_zero, hvars, pvars, tvars>>

RunGenerateSqrtHintU256 ==
    /\ dpc = "input"
    /\ dpc' = "regenerate_garaga_hints.generate_sqrt_hint_u256"
    /\ dres' = generate_sqrt_hint_u256(compressed_hex)
    /\ UNCHANGED <<compressed_hex, sqrt_hint, garaga_on_zero, hvars, pvars, tvars>>

RunGetCorrectSqrtHint ==
    /\ dpc = "input"
    /\ dpc' = "generate_correct_sqrt_hints"
    /\ dres' = get_correct_sqrt_hint(compressed_hex)
    /\ UNCHANGED <<compressed_hex, sqrt_hint, garaga_on_zero, hvars, pvars, tvars>>

DecNext ==
    \/ RunDecompressWithGaraga
    \/ RunVhsDecompressWithGaraga
    \/ RunRdhDecompressEdwardsPoint
    \/ RunDecompressEd25519Point
    \/ RunFahDecompressEdwardsPoint
    \/ RunGenerateSqrtHintU256
    \/ RunGetCorrectSqrtHint

SpecDecompress == DecInit /\ [][DecNext]_vars

-----------------------------------------------------------------------------
(* Hints: one hint is generated or loaded, then one routine checks it.      *)

\* the scalar ranges over 0 .. MaxScalar (l and above are reduced by the tools)
MaxScalar == 29

\* the get_fake_glv_hint call of the library raises on this scalar
GaragaRaises(scalar) == garaga_on_zero = "raise" /\ scalar % ED25519_ORDER = 0

HintInit ==
    /\ DecIdle
    /\ ProverIdle
    /\ ToolIdle
    /\ garaga_on_zero \in GaragaOnZero
    /\ h_scalar \in 0..MaxScalar
    /\ h_base \in {G, Y}
    /\ h_hint = <<>>
    /\ h_pc = "input"
    /\ h_checker = ""
    /\ h_verdict = ""

\* fix_all_hints.get_fake_glv_hint(point_x, point_y, scalar)
GenFixAllHints ==
    /\ h_pc = "input"
    /\ h_hint' = fah_get_fake_glv_hint(h_base[1], h_base[2], h_scalar)
    /\ h_pc' = "fix_all_hints"
    /\ UNCHANGED <<dvars, pvars, tvars, garaga_on_zero, h_scalar, h_base, h_checker, h_verdict>>

\* generate_dleq_hints.generate_hint_for_scalar_and_base(scalar, base_point)
GenHintForScalarAndBase ==
    /\ h_pc = "input"
    /\ IF GaragaRaises(h_scalar)
       THEN h_hint' = <<>> /\ h_pc' = "raised"
       ELSE /\ h_hint' = generate_hint_for_scalar_and_base(h_scalar, h_base)
            /\ h_pc' = "generate_dleq_hints"
    /\ UNCHANGED <<dvars, pvars, tvars, garaga_on_zero, h_scalar, h_base, h_checker, h_verdict>>

\* verify_fake_glv_decomposition.main: [0] * 10 with s1, s2 filled in
LoadPlaceholderHint ==
    /\ h_pc = "input"
    /\ IF GaragaRaises(h_scalar)
       THEN h_hint' = <<>> /\ h_pc' = "raised"
       ELSE /\ h_hint' = [i \in 1..10 |->
                    IF i = 9 THEN garaga_get_fake_glv_hint(h_base, h_scalar)[2]
                    ELSE IF i = 10 THEN garaga_get_fake_glv_hint(h_base, h_scalar)[3]
                    ELSE 0]
            /\ h_pc' = "placeholder"
    /\ UNCHANGED <<dvars, pvars, tvars, garaga_on_zero, h_scalar, h_base, h_checker, h_verdict>>

\* a hint read from a file (verify_hint.py reads adaptor_point_hint.json):
\* any s1 and s2_encoded, Q all zero or Q = k * P
LoadHint ==
    /\ h_pc = "input"
    /\ \E q \in {<<0, 0>>, ScalarMul(h_scalar % ED25519_ORDER, h_base)},
          s1 \in 0..(U128 - 1), s2_encoded \in 0..(2 * U128 - 1) :
            h_hint' = u384_to_cairo_tuple(q[1]) \o u384_to_cairo_tuple(q[2])
                        \o <<s1, s2_encoded>>
    /\ h_pc' = "loaded"
    /\ UNCHANGED <<dvars, pvars, tvars, garaga_on_zero, h_scalar, h_base, h_checker, h_verdict>>

HintPresent == h_pc \in {"fix_all_hints", "generate_dleq_hints", "placeholder", "loaded"}

\* verify_fake_glv_decomposition.verify_hint(point, scalar, hint, name)
RunVerifyHint ==
    /\ HintPresent
    /\ h_checker = ""
    /\ h_checker' = "verify_fake_glv_decomposition"
    /\ h_verdict' = IF verify_hint(h_base, h_scalar, h_hint, GaragaRaises(h_scalar))
                    THEN "valid" ELSE "invalid"
    /\ UNCHANGED <<dvars, pvars, tvars, garaga_on_zero, h_scalar, h_base, h_hint, h_pc>>

\* verify_hint.py, run on a hint for the base point G; a raised exception
\* ends the script like a failed check
RunVerifyHintScript ==
    /\ HintPresent
    /\ h_base = G
    /\ h_checker = ""
    /\ h_checker' = "verify_hint"
    /\ h_verdict' =
          IF GaragaRaises(h_scalar) THEN "invalid"
          ELSE IF vh_verify(h_scalar, h_hint,
                            generate_hint_for_scalar_and_base(h_scalar, G)) = "passed"
               THEN "valid" ELSE "invalid"
    /\ UNCHANGED <<dvars, pvars, tvars, garaga_on_zero, h_scalar, h_base, h_hint, h_pc>>

\* regenerate_dleq_hints.main.verify_hint(scalar, s1, s2_encoded, name)
RunRdhVerifyHint ==
    /\ HintPresent
    /\ h_checker = ""
    /\ h_checker' = "regenerate_dleq_hints"
    /\ h_verdict' = IF rdh_verify_hint(h_scalar, h_hint[9], h_hint[10])
                    THEN "valid" ELSE "invalid"
    /\ UNCHANGED <<dvars, pvars, tvars, garaga_on_zero, h_scalar, h_base, h_hint, h_pc>>

HintNext ==
    \/ GenFixAllHints
    \/ GenHintForScalarAndBase
    \/ LoadPlaceholderHint
    \/ LoadHint
    \/ RunVerifyHint
    \/ RunVerifyHintScript
    \/ RunRdhVerifyHint

SpecHint == HintInit /\ [][HintNext]_vars

-----------------------------------------------------------------------------
(* hashlib (library): SHA-256 and BLAKE2s, by stand-ins whose digest has    *)
(* NBYTES bytes; update() calls concatenate.                                *)

RECURSIVE HashFold(_, _)
HashFold(data, h) ==
    IF data = <<>> THEN h
    ELSE HashFold(Tail(data), (h * 31 + Head(data) + 1) % (BYTE ^ NBYTES))

sha256(data) == IntToBytesLE(HashFold(data, 7), NBYTES)
blake2s(data) == IntToBytesLE(HashFold(data, 11), NBYTES)

\* hashlib.blake2s(digest_size=32) as an object: h is its state, fed the
\* bytes it was given so far
blake2s_new == [h |-> 11, fed |-> <<>>]
hasher_update(hasher, data) == [h |-> HashFold(data, hasher.h), fed |-> hasher.fed \o data]
hasher_digest(hasher) == IntToBytesLE(hasher.h, NBYTES)

-----------------------------------------------------------------------------
(* tools/generate_dleq_for_adaptor_point.py                                 *)

\* int.from_bytes(word, byteorder='big')
RECURSIVE IntFromBytesBE(_)
IntFromBytesBE(bs) ==
    IF bs = <<>> THEN 0
    ELSE bs[Len(bs)] + BYTE * IntFromBytesBE(SubSeq(bs, 1, Len(bs) - 1))

\* the bytes of a u32 word (4 of the 32 bytes of a digest; here a word has
\* two bytes, so that its byte order shows)
WORD == 2

\* compress_edwards_pt_to_y_compressed_le (garaga) of a point
compress_edwards_pt_to_y_compressed_le(pt) == Compress(pt[1], pt[2])

secret_to_scalar(secret_bytes) ==
    IntFromBytesLE(secret_bytes) % ED25519_ORDER

hashlock_from_secret(secret_bytes) == sha256(secret_bytes)

hashlock_to_u32_array(hashlock) ==
    [i \in 1..(Len(hashlock) \div WORD) |->
        IntFromBytesBE(SubSeq(hashlock, (i - 1) * WORD + 1, i * WORD))]

\* mutant: the counter byte of the nonce is the number of the call
generate_deterministic_nonce_call_counter(secret_scalar, hashlock) ==
    IntFromBytesLE(sha256(IntToBytesLE(secret_scalar, NBYTES) \o hashlock
                          \o <<run % BYTE>>)) % ED25519_ORDER

\* mutant: the hashlock is left out of the hashed bytes
nonce_hasher_input_without_hashlock(secret_scalar, hashlock) ==
    IntToBytesLE(secret_scalar, NBYTES) \o <<0>>

\* lines 61-64 of generate_deterministic_nonce: the bytes given to the
\* hasher (the scalar in 32 bytes, the hashlock, the counter byte)
nonce_hasher_input(secret_scalar, hashlock) ==
    IntToBytesLE(secret_scalar, NBYTES) \o hashlock \o <<0>>

generate_deterministic_nonce(secret_scalar, hashlock) ==
    LET k_bytes == sha256(nonce_hasher_input(secret_scalar, hashlock))
    IN  IntFromBytesLE(k_bytes) % ED25519_ORDER

\* b"DLEQ" (0x44 0x4c 0x45 0x51, here the low half of each byte)
DLEQ_TAG == <<4, 12, 5, 1>>

\* lines 83-95 of compute_blake2s_challenge: the hasher after its updates
challenge_hasher(g_compressed, y_compressed, t_compressed, u_compressed, r1_compressed, r2_compressed, hashlock) ==
    LET h0 == hasher_update(blake2s_new, DLEQ_TAG)
        h1 == hasher_update(h0, g_compressed)
        h2 == hasher_update(h1, y_compressed)
        h3 == hasher_update(h2, t_compressed)
        h4 == hasher_update(h3, u_compressed)
        h5 == hasher_update(h4, r1_compressed)
        h6 == hasher_update(h5, r2_compressed)
    IN  hasher_update(h6, hashlock)

compute_blake2s_challenge(g_compressed, y_compressed, t_compressed, u_compressed, r1_compressed, r2_compressed, hashlock) ==
    LET challenge_bytes ==
            hasher_digest(challenge_hasher(g_compressed, y_compressed, t_compressed,
                                           u_compressed, r1_compressed, r2_compressed, hashlock))
    IN  IntFromBytesLE(challenge_bytes) % ED25519_ORDER

\* mutant: the sign of c * t reversed
compute_response_minus(nonce, challenge, secret_scalar) ==
    (nonce + (ED25519_ORDER - challenge) * secret_scalar) % ED25519_ORDER

\* response = (k + challenge * secret_scalar) % order
compute_response(nonce, challenge, secret_scalar) ==
    (nonce + challenge * secret_scalar) % ED25519_ORDER

\* mutant: the two halves of the u256 exchanged
u256_from_bytes_halves_exchanged(b) ==
    [low |-> IntFromBytesLE(SubSeq(b, NBYTES \div 2 + 1, Len(b))),
     high |-> IntFromBytesLE(SubSeq(b, 1, NBYTES \div 2))]

\* generate_dleq_proof.u256_from_bytes: b[:16] and b[16:], little-endian
u256_from_bytes(b) ==
    [low |-> IntFromBytesLE(SubSeq(b, 1, NBYTES \div 2)),
     high |-> IntFromBytesLE(SubSeq(b, NBYTES \div 2 + 1, Len(b)))]

\* generate_dleq_proof.hint_to_cairo_array: the felts of the hint, in order
hint_to_cairo_array(hint) == [i \in 1..Len(hint) |-> hint[i]]

\* the placeholder b'\x00' * 32 of the four sqrt hints
sqrt_hint_placeholder == [i \in 1..NBYTES |-> 0]

-----------------------------------------------------------------------------
(* The verifier (Cairo, not among the Python tools): it recomputes the      *)
(* challenge from the transcript and checks the two identities.             *)

u256_to_bytes(u) ==
    IntToBytesLE(u.low, NBYTES \div 2) \o IntToBytesLE(u.high, NBYTES - NBYTES \div 2)

DleqVerifier(T_point, U_point, context, R1_compressed, R2_compressed, challenge, response) ==
    LET c == compute_blake2s_challenge(
                 compress_edwards_pt_to_y_compressed_le(G),
                 compress_edwards_pt_to_y_compressed_le(Y),
                 compress_edwards_pt_to_y_compressed_le(T_point),
                 compress_edwards_pt_to_y_compressed_le(U_point),
                 R1_compressed, R2_compressed, context)
        c_neg == (ED25519_ORDER - c) % ED25519_ORDER
        lhs1 == EdAdd(ScalarMul(response, G), ScalarMul(c_neg, T_point))
        lhs2 == EdAdd(ScalarMul(response, Y), ScalarMul(c_neg, U_point))
    IN  IF c # challenge THEN "ChallengeMismatch"
        ELSE IF /\ compress_edwards_pt_to_y_compressed_le(lhs1) = R1_compressed
                /\ compress_edwards_pt_to_y_compressed_le(lhs2) = R2_compressed
             THEN "Accepted"
             ELSE "ProofInvalid"

-----------------------------------------------------------------------------
(* The prover: generate_dleq_proof, called MaxRuns times on one input.      *)

\* the number of calls on the same input
MaxRuns == 2
\* a supplied adaptor point is n * G for n in 0 .. MaxAdaptor
MaxAdaptor == 2

\* generate_dleq_proof calls get_fake_glv_hint(scalar, point, 0) and
\* msm_g1(points, scalars, 0, hint), where the other tools call
\* get_fake_glv_hint(point, scalar); whether the installed library takes
\* these calls is not known here (garaga_accepts_calls): if it does not,
\* the first of them raises
ProverInit ==
    /\ DecIdle
    /\ HintIdle
    /\ ToolIdle
    /\ garaga_on_zero \in GaragaOnZero
    /\ garaga_accepts_calls \in BOOLEAN
    /\ secret_hex \in ByteStrings \cup {<<>>, <<1>>, <<1, 2, 3>>}
    /\ adaptor_point_weierstrass \in {<<>>} \cup {ScalarMul(n, G) : n \in 0..MaxAdaptor}
    /\ run = 1
    /\ pc = "Init"
    /\ locals = NoLocals
    /\ proof = NoProof
    /\ earlier_runs = <<>>
    /\ verdict = ""

\* lines 116-141: the secret is parsed, T = t*G and U = t*Y are derived
DeriveStatement ==
    /\ pc = "Init"
    /\ IF Len(secret_hex) # NBYTES
       THEN \* ValueError: Secret must be 32 bytes
            pc' = "Raised" /\ UNCHANGED locals
       ELSE IF ~garaga_accepts_calls
       THEN pc' = "Raised" /\ UNCHANGED locals
       ELSE LET secret_scalar == secret_to_scalar(secret_hex)
                hashlock == hashlock_from_secret(secret_hex)
            IN  IF GaragaRaises(secret_scalar)
                THEN \* get_fake_glv_hint(secret_scalar, ...) raised
                     /\ pc' = "Raised"
                     /\ locals' = [locals EXCEPT !.secret_scalar = secret_scalar,
                                                 !.hashlock = hashlock]
                ELSE /\ pc' = "StatementDerived"
                     /\ locals' = [locals EXCEPT
                            !.secret_scalar = secret_scalar,
                            !.hashlock = hashlock,
                            !.T = IF adaptor_point_weierstrass = <<>>
                                  THEN ScalarMul(secret_scalar, G)
                                  ELSE adaptor_point_weierstrass,
                            !.U = ScalarMul(secret_scalar, Y)]
    /\ UNCHANGED <<dvars, garaga_on_zero, hvars, tvars, secret_hex, adaptor_point_weierstrass,
                   garaga_accepts_calls, run, proof, earlier_runs, verdict>>

\* line 144: k = generate_deterministic_nonce(secret_scalar, hashlock)
ChooseNonce ==
    /\ pc = "StatementDerived"
    /\ pc' = "NonceChosen"
    /\ locals' = [locals EXCEPT
           !.k = generate_deterministic_nonce(locals.secret_scalar, locals.hashlock)]
    /\ UNCHANGED <<dvars, garaga_on_zero, hvars, tvars, secret_hex, adaptor_point_weierstrass,
                   garaga_accepts_calls, run, proof, earlier_runs, verdict>>

\* lines 147-151: R1 = k*G, R2 = k*Y
Commit ==
    /\ pc = "NonceChosen"
    /\ IF GaragaRaises(locals.k)
       THEN pc' = "Raised" /\ UNCHANGED locals
       ELSE /\ pc' = "Committed"
            /\ locals' = [locals EXCEPT !.R1 = ScalarMul(locals.k, G),
                                        !.R2 = ScalarMul(locals.k, Y)]
    /\ UNCHANGED <<dvars, garaga_on_zero, hvars, tvars, secret_hex, adaptor_point_weierstrass,
                   garaga_accepts_calls, run, proof, earlier_runs, verdict>>

\* lines 154-166: the points are compressed, the challenge is computed
ComputeChallenge ==
    /\ pc = "Committed"
    /\ pc' = "ChallengeComputed"
    /\ locals' = [locals EXCEPT !.challenge =
           compute_blake2s_challenge(
               compress_edwards_pt_to_y_compressed_le(G),
               compress_edwards_pt_to_y_compressed_le(Y),
               compress_edwards_pt_to_y_compressed_le(locals.T),
               compress_edwards_pt_to_y_compressed_le(locals.U),
               compress_edwards_pt_to_y_compressed_le(locals.R1),
               compress_edwards_pt_to_y_compressed_le(locals.R2),
               locals.hashlock)]
    /\ UNCHANGED <<dvars, garaga_on_zero, hvars, tvars, secret_hex, adaptor_point_weierstrass,
                   garaga_accepts_calls, run, proof, earlier_runs, verdict>>

\* line 169: response = (k + challenge * secret_scalar) % order
ComputeResponse ==
    /\ pc = "ChallengeComputed"
    /\ pc' = "ResponseComputed"
    /\ locals' = [locals EXCEPT !.response =
           compute_response(locals.k, locals.challenge, locals.secret_scalar)]
    /\ UNCHANGED <<dvars, garaga_on_zero, hvars, tvars, secret_hex, adaptor_point_weierstrass,
                   garaga_accepts_calls, run, proof, earlier_runs, verdict>>

\* lines 171-225: the four hints, the placeholder sqrt hints, the dict
Output ==
    /\ pc = "ResponseComputed"
    /\ LET c_neg == (ED25519_ORDER - locals.challenge) % ED25519_ORDER
       IN  IF GaragaRaises(locals.response) \/ GaragaRaises(c_neg)
           THEN pc' = "Raised" /\ UNCHANGED proof
           ELSE /\ pc' = "Done"
                /\ proof' =
                    [secret_hex |-> secret_hex,
                     hashlock_u32 |-> hashlock_to_u32_array(locals.hashlock),
                     adaptor_point_compressed |->
                        u256_from_bytes(compress_edwards_pt_to_y_compressed_le(locals.T)),
                     adaptor_point_sqrt_hint |-> u256_from_bytes(sqrt_hint_placeholder),
                     second_point_compressed |->
                        u256_from_bytes(compress_edwards_pt_to_y_compressed_le(locals.U)),
                     second_point_sqrt_hint |-> u256_from_bytes(sqrt_hint_placeholder),
                     challenge |-> locals.challenge,
                     response |-> locals.response,
                     g_compressed |->
                        u256_from_bytes(compress_edwards_pt_to_y_compressed_le(G)),
                     y_compressed |->
                        u256_from_bytes(compress_edwards_pt_to_y_compressed_le(Y)),
                     r1_compressed |->
                        u256_from_bytes(compress_edwards_pt_to_y_compressed_le(locals.R1)),
                     r1_sqrt_hint |-> u256_from_bytes(sqrt_hint_placeholder),
                     r2_compressed |->
                        u256_from_bytes(compress_edwards_pt_to_y_compressed_le(locals.R2)),
                     r2_sqrt_hint |-> u256_from_bytes(sqrt_hint_placeholder),
                     s_hint_for_g |-> hint_to_cairo_array(
                        generate_hint_for_scalar_and_base(locals.response, G)),
                     s_hint_for_y |-> hint_to_cairo_array(
                        generate_hint_for_scalar_and_base(locals.response, Y)),
                     c_neg_hint_for_t |-> hint_to_cairo_array(
                        generate_hint_for_scalar_and_base(c_neg, locals.T)),
                     c_neg_hint_for_u |-> hint_to_cairo_array(
                        generate_hint_for_scalar_and_base(c_neg, locals.U))]
    /\ UNCHANGED <<dvars, garaga_on_zero, hvars, tvars, secret_hex, adaptor_point_weierstrass,
                   garaga_accepts_calls, run, locals, earlier_runs, verdict>>

\* the verifier is given the statement (T, U, hashlock) and the proof
RunDleqVerifier ==
    /\ pc = "Done"
    /\ verdict = ""
    /\ verdict' = DleqVerifier(locals.T, locals.U, locals.hashlock,
                               u256_to_bytes(proof.r1_compressed),
                               u256_to_bytes(proof.r2_compressed),
                               proof.challenge, proof.response)
    /\ UNCHANGED <<dvars, garaga_on_zero, hvars, tvars, secret_hex, adaptor_point_weierstrass,
                   garaga_accepts_calls, run, pc, locals, proof, earlier_runs>>

\* generate_dleq_proof is called again with the same arguments
CallAgain ==
    /\ pc \in {"Done", "Raised"}
    /\ run < MaxRuns
    /\ earlier_runs' = Append(earlier_runs,
                              [outcome |-> pc, locals |-> locals, proof |-> proof])
    /\ run' = run + 1
    /\ pc' = "Init"
    /\ locals' = NoLocals
    /\ proof' = NoProof
    /\ verdict' = ""
    /\ UNCHANGED <<dvars, garaga_on_zero, hvars, tvars, secret_hex, adaptor_point_weierstrass,
                   garaga_accepts_calls>>

ProverNext ==
    \/ DeriveStatement
    \/ ChooseNonce
    \/ Commit
    \/ ComputeChallenge
    \/ ComputeResponse
    \/ Output
    \/ RunDleqVerifier
    \/ CallAgain

SpecProver == ProverInit /\ [][ProverNext]_vars

-----------------------------------------------------------------------------
(* tools/verify_full_compatibility.py                                       *)

\* verify_blake2s_digest(test_vectors_path); tv is the JSON object of the
\* file, its hex strings as bytes.  challenge is the reduced digest, fed the
\* bytes given to the hasher, returned what the function returns.
verify_blake2s_digest(tv) ==
    LET h0 == hasher_update(blake2s_new, DLEQ_TAG)
        h1 == hasher_update(h0, tv.g_compressed)
        h2 == hasher_update(h1, tv.y_compressed)
        h3 == hasher_update(h2, tv.adaptor_point_compressed)
        h4 == hasher_update(h3, tv.second_point_compressed)
        h5 == hasher_update(h4, tv.r1_compressed)
        h6 == hasher_update(h5, tv.r2_compressed)
        hasher == hasher_update(h6, tv.hashlock)
        digest == hasher_digest(hasher)
        digest_int == IntFromBytesLE(digest)
        reduced == digest_int % ED25519_ORDER
        reduced_bytes_le == IntToBytesLE(reduced, NBYTES)
        expected_bytes == tv.challenge
    IN  [challenge |-> reduced, fed |-> hasher.fed, raised |-> "",
         returned |-> (reduced_bytes_le = expected_bytes)]

-----------------------------------------------------------------------------
(* tools/verify_challenge_computation.py                                    *)

\* mutant: the two halves of the digest combined the other way round
compute_dleq_challenge_python_halves_swapped(vectors) ==
    LET data == DLEQ_TAG \o vectors.g_compressed \o vectors.y_compressed
                \o vectors.adaptor_point_compressed \o vectors.second_point_compressed
                \o vectors.r1_compressed \o vectors.r2_compressed \o vectors.hashlock
        digest == blake2s(data)
        low == IntFromBytesLE(SubSeq(digest, 1, NBYTES \div 2))
        high == IntFromBytesLE(SubSeq(digest, NBYTES \div 2 + 1, NBYTES))
        reduced == (high + low * U128) % ED25519_ORDER
    IN  [challenge |-> reduced, fed |-> data, raised |-> "",
         returned |-> [truncated |-> reduced % U128,
                       matches_full |-> (reduced = IntFromBytesBE(vectors.challenge)),
                       matches_truncated |-> (reduced % U128 = IntFromBytesBE(vectors.challenge) % U128)]]

\* compute_dleq_challenge_python(); vectors is the JSON object of
\* test_vectors.json.  The function prints its findings: returned holds
\* the truncated challenge and the two comparisons it reports.
compute_dleq_challenge_python(vectors) ==
    LET data == DLEQ_TAG \o vectors.g_compressed \o vectors.y_compressed
                \o vectors.adaptor_point_compressed \o vectors.second_point_compressed
                \o vectors.r1_compressed \o vectors.r2_compressed \o vectors.hashlock
        digest == blake2s(data)
        low == IntFromBytesLE(SubSeq(digest, 1, NBYTES \div 2))
        high == IntFromBytesLE(SubSeq(digest, NBYTES \div 2 + 1, NBYTES))
        full == low + high * U128
        reduced == full % ED25519_ORDER
        truncated == reduced % U128
        expected_challenge_int == IntFromBytesBE(vectors.challenge)
        expected_truncated == expected_challenge_int % U128
    IN  [challenge |-> reduced, fed |-> data, raised |-> "",
         returned |-> [truncated |-> truncated,
                       matches_full |-> (reduced = expected_challenge_int),
                       matches_truncated |-> (truncated = expected_truncated)]]

-----------------------------------------------------------------------------
(* The challenge: one of the three routines is run on a test vector, then   *)
(* once more on a second vector.                                            *)

\* the bytes a hex field of test_vectors.json can hold: bytes.fromhex takes
\* any even number of hex digits, so a field has NBYTES bytes or not
FieldSamples == {<<1, 2>>, <<2, 1>>, <<1>>, <<2, 1, 2>>}

\* the stored challenge: the reduced digest in little-endian bytes, or in
\* the opposite byte order
StoredChallenges(c) == {IntToBytesLE(c, NBYTES), [i \in 1..NBYTES |-> IntToBytesLE(c, NBYTES)[NBYTES + 1 - i]]}

\* a test vector with the given T, U, R1, R2, hashlock (f) and challenge
TestVector(f, ch) ==
    [g_compressed |-> Compress(G[1], G[2]), y_compressed |-> Compress(Y[1], Y[2]),
     adaptor_point_compressed |-> f[1], second_point_compressed |-> f[2],
     r1_compressed |-> f[3], r2_compressed |-> f[4], hashlock |-> f[5],
     challenge |-> ch]

\* the challenge the writer of the file computed for its fields
WrittenChallenge(f) ==
    IntFromBytesLE(blake2s(DLEQ_TAG \o Compress(G[1], G[2]) \o Compress(Y[1], Y[2])
                           \o f[1] \o f[2] \o f[3] \o f[4] \o f[5])) % ED25519_ORDER

\* the test vectors: the generators G and Y compressed, the other fields
\* as the file gives them
TestVectors ==
    UNION {{TestVector(f, ch) : ch \in StoredChallenges(WrittenChallenge(f))} :
           f \in FieldSamples \X FieldSamples \X FieldSamples \X FieldSamples \X FieldSamples}

\* the arguments generate_dleq_proof passes at lines 158-166
ComputeBlake2sChallengeOn(tv) ==
    [challenge |-> compute_blake2s_challenge(tv.g_compressed, tv.y_compressed,
                        tv.adaptor_point_compressed, tv.second_point_compressed,
                        tv.r1_compressed, tv.r2_compressed, tv.hashlock),
     fed |-> challenge_hasher(tv.g_compressed, tv.y_compressed,
                        tv.adaptor_point_compressed, tv.second_point_compressed,
                        tv.r1_compressed, tv.r2_compressed, tv.hashlock).fed,
     raised |-> "",
     returned |-> compute_blake2s_challenge(tv.g_compressed, tv.y_compressed,
                        tv.adaptor_point_compressed, tv.second_point_compressed,
                        tv.r1_compressed, tv.r2_compressed, tv.hashlock)]

ChallengeRoutine(name, tv) ==
    CASE name = "generate_dleq_for_adaptor_point" -> ComputeBlake2sChallengeOn(tv)
      [] name = "verify_full_compatibility" -> verify_blake2s_digest(tv)
      [] name = "verify_challenge_computation" -> compute_dleq_challenge_python(tv)

ChallengeInit ==
    /\ t_args \in {<<tv>> : tv \in TestVectors}
    /\ t_routine = "input"
    /\ t_results = <<>>
    /\ garaga_on_zero = "raise"
    /\ DecIdle
    /\ HintIdle
    /\ ProverIdle

RunComputeBlake2sChallenge ==
    /\ t_routine = "input"
    /\ t_routine' = "generate_dleq_for_adaptor_point"
    /\ t_results' = <<ComputeBlake2sChallengeOn(t_args[1])>>
    /\ UNCHANGED <<dvars, garaga_on_zero, hvars, pvars, t_args>>

RunVerifyBlake2sDigest ==
    /\ t_routine = "input"
    /\ t_routine' = "verify_full_compatibility"
    /\ t_results' = <<verify_blake2s_digest(t_args[1])>>
    /\ UNCHANGED <<dvars, garaga_on_zero, hvars, pvars, t_args>>

RunComputeDleqChallengePython ==
    /\ t_routine = "input"
    /\ t_routine' = "verify_challenge_computation"
    /\ t_results' = <<compute_dleq_challenge_python(t_args[1])>>
    /\ UNCHANGED <<dvars, garaga_on_zero, hvars, pvars, t_args>>

\* the same routine is run on a vector with another T and U
RunOnSecondVector ==
    /\ t_routine # "input"
    /\ Len(t_args) = 1
    /\ \E t \in FieldSamples, u \in FieldSamples :
         LET tv == [t_args[1] EXCEPT !.adaptor_point_compressed = t,
                                     !.second_point_compressed = u]
         IN  /\ t_args' = Append(t_args, tv)
             /\ t_results' = Append(t_results, ChallengeRoutine(t_routine, tv))
    /\ UNCHANGED <<dvars, garaga_on_zero, hvars, pvars, t_routine>>

ChallengeNext ==
    \/ RunComputeBlake2sChallenge
    \/ RunVerifyBlake2sDigest
    \/ RunComputeDleqChallengePython
    \/ RunOnSecondVector

SpecChallenge == ChallengeInit /\ [][ChallengeNext]_vars

-----------------------------------------------------------------------------
(* The nonce: generate_deterministic_nonce on the scalar and the hashlock   *)
(* of one secret, then of a second secret.                                  *)

\* lines 123-124 of generate_dleq_proof: what a secret gives the nonce
NonceArgs(secret_bytes) ==
    [secret_scalar |-> secret_to_scalar(secret_bytes),
     hashlock |-> hashlock_from_secret(secret_bytes)]

\* k as returned, fed the bytes that were hashed
GenerateDeterministicNonceOn(a) ==
    [k |-> generate_deterministic_nonce(a.secret_scalar, a.hashlock),
     fed |-> nonce_hasher_input(a.secret_scalar, a.hashlock)]

NonceInit ==
    /\ t_args \in {<<NonceArgs(secret_bytes)>> : secret_bytes \in ByteStrings}
    /\ t_routine = "input"
    /\ t_results = <<>>
    /\ garaga_on_zero = "raise"
    /\ DecIdle
    /\ HintIdle
    /\ ProverIdle

RunGenerateDeterministicNonce ==
    /\ t_routine = "input"
    /\ t_routine' = "generate_deterministic_nonce"
    /\ t_results' = <<GenerateDeterministicNonceOn(t_args[1])>>
    /\ UNCHANGED <<dvars, garaga_on_zero, hvars, pvars, t_args>>

\* a second run of the prover, on any secret
RunNonceOfSecondRun ==
    /\ t_routine = "generate_deterministic_nonce"
    /\ Len(t_args) = 1
    /\ \E secret_bytes \in ByteStrings :
         /\ t_args' = Append(t_args, NonceArgs(secret_bytes))
         /\ t_results' = Append(t_results, GenerateDeterministicNonceOn(NonceArgs(secret_bytes)))
    /\ UNCHANGED <<dvars, garaga_on_zero, hvars, pvars, t_routine>>

NonceNext ==
    \/ RunGenerateDeterministicNonce
    \/ RunNonceOfSecondRun

SpecNonce == NonceInit /\ [][NonceNext]_vars

-----------------------------------------------------------------------------
(* The encoding of s2: a signed s2 is encoded, then one decoder of the      *)
(* repository decodes it.                                                   *)

S2Init ==
    /\ t_args \in {<<s2>> : s2 \in (1 - U128)..(U128 - 1)}
    /\ t_routine = "input"
    /\ t_results = <<>>
    /\ garaga_on_zero = "raise"
    /\ DecIdle
    /\ HintIdle
    /\ ProverIdle

\* fix_all_hints.get_fake_glv_hint, line 108
RunFahEncodeS2 ==
    /\ t_routine = "input"
    /\ t_routine' = "encoded"
    /\ t_results' = <<[routine |-> "fix_all_hints", value |-> fah_encode_s2(t_args[1])]>>
    /\ UNCHANGED <<dvars, garaga_on_zero, hvars, pvars, t_args>>

\* garaga's get_fake_glv_hint, as the other generators call it
RunGaragaEncodeS2 ==
    /\ t_routine = "input"
    /\ t_routine' = "encoded"
    /\ t_results' = <<[routine |-> "garaga", value |-> encode_value_signed(t_args[1])]>>
    /\ UNCHANGED <<dvars, garaga_on_zero, hvars, pvars, t_args>>

RunDecode ==
    /\ t_routine = "encoded"
    /\ t_routine' = "decoded"
    /\ t_results' = Append(t_results, [routine |-> "verify_fake_glv_decomposition",
                                       value |-> decode(t_results[1].value)])
    /\ UNCHANGED <<dvars, garaga_on_zero, hvars, pvars, t_args>>

RunRdhDecodeS2 ==
    /\ t_routine = "encoded"
    /\ t_routine' = "decoded"
    /\ t_results' = Append(t_results, [routine |-> "regenerate_dleq_hints",
                                       value |-> rdh_decode_s2(t_results[1].value)])
    /\ UNCHANGED <<dvars, garaga_on_zero, hvars, pvars, t_args>>

RunVesmDecodeS2 ==
    /\ t_routine = "encoded"
    /\ t_routine' = "decoded"
    /\ t_results' = Append(t_results, [routine |-> "verify_exact_scalar_match",
                                       value |-> vesm_decode_s2(t_results[1].value)])
    /\ UNCHANGED <<dvars, garaga_on_zero, hvars, pvars, t_args>>

S2Next ==
    \/ RunFahEncodeS2
    \/ RunGaragaEncodeS2
    \/ RunDecode
    \/ RunRdhDecodeS2
    \/ RunVesmDecodeS2

SpecS2 == S2Init /\ [][S2Next]_vars

-----------------------------------------------------------------------------
(* tools/hex_to_cairo_u256.py, tools/fix_compressed_points.py,              *)
(* tools/generate_deploy_calldata.py, tools/generate_sqrt_hints.py: a hex   *)
(* string is given as the bytes it spells (two hex digits a byte), so that  *)
(* int(hex_str, 16) is the big-endian integer of those bytes.               *)

hex_to_cairo_u256(hex_str) ==
    IF Len(hex_str) # NBYTES
    THEN [low |-> -1, high |-> -1, raised |-> "ValueError"]
    ELSE [low |-> IntFromBytesLE(SubSeq(hex_str, 1, NBYTES \div 2)),
          high |-> IntFromBytesLE(SubSeq(hex_str, NBYTES \div 2 + 1, NBYTES)),
          raised |-> ""]

fix_compressed_point_to_u256(hex_str) ==
    IF Len(hex_str) # NBYTES
    THEN [low |-> -1, high |-> -1, raised |-> "ValueError"]
    ELSE LET value_le == IntFromBytesLE(hex_str)
         IN  [low |-> value_le % U128, high |-> (value_le \div U128) % U128,
              raised |-> ""]

\* u256_to_felts(u256_value) for a str: lines 23-28
u256_to_felts(u256_value) ==
    LET u256_int == IntFromBytesBE(u256_value)
    IN  [low |-> u256_int % U128, high |-> u256_int \div U128, raised |-> ""]

\* generate_sqrt_hints.main, lines 140-141: compressed_int, shown by its
\* two halves
gsh_compressed_int(hex_str) ==
    LET compressed_int == IntFromBytesBE(hex_str)
    IN  [low |-> compressed_int % U128, high |-> compressed_int \div U128, raised |-> ""]

-----------------------------------------------------------------------------
(* Hex strings: one tool reads one compressed-point hex string.             *)

HexInit ==
    /\ t_args \in {<<hex_str>> : hex_str \in ByteStrings \cup {<<1>>, <<1, 2, 3>>}}
    /\ t_routine = "input"
    /\ t_results = <<>>
    /\ garaga_on_zero = "raise"
    /\ DecIdle
    /\ HintIdle
    /\ ProverIdle

RunHexToCairoU256 ==
    /\ t_routine = "input"
    /\ t_routine' = "hex_to_cairo_u256"
    /\ t_results' = <<hex_to_cairo_u256(t_args[1])>>
    /\ UNCHANGED <<dvars, garaga_on_zero, hvars, pvars, t_args>>

RunFixCompressedPointToU256 ==
    /\ t_routine = "input"
    /\ t_routine' = "fix_compressed_points"
    /\ t_results' = <<fix_compressed_point_to_u256(t_args[1])>>
    /\ UNCHANGED <<dvars, garaga_on_zero, hvars, pvars, t_args>>

RunU256ToFelts ==
    /\ t_routine = "input"
    /\ t_routine' = "generate_deploy_calldata"
    /\ t_results' = <<u256_to_felts(t_args[1])>>
    /\ UNCHANGED <<dvars, garaga_on_zero, hvars, pvars, t_args>>

RunGshCompressedInt ==
    /\ t_routine = "input"
    /\ t_routine' = "generate_sqrt_hints"
    /\ t_results' = <<gsh_compressed_int(t_args[1])>>
    /\ UNCHANGED <<dvars, garaga_on_zero, hvars, pvars, t_args>>

HexNext ==
    \/ RunHexToCairoU256
    \/ RunFixCompressedPointToU256
    \/ RunU256ToFelts
    \/ RunGshCompressedInt

SpecHex == HexInit /\ [][HexNext]_vars

-----------------------------------------------------------------------------
(* The scalars s and c of a proof as the tools derive them from the         *)
(* response and the challenge of test_vectors.json (both parsed with        *)
(* int(.., 16); the parsed integers are the input here).                    *)

\* regenerate_dleq_hints.main, lines 89-105
rdh_scalars(response_int, challenge_int) ==
    LET s_scalar == response_int % ED25519_ORDER
        c_scalar == challenge_int % ED25519_ORDER
    IN  [routine |-> "regenerate_dleq_hints", s_scalar |-> s_scalar, c_scalar |-> c_scalar,
         c_neg_scalar |-> (ED25519_ORDER - c_scalar) % ED25519_ORDER]

\* generate_hints_exact.main, lines 146-153
ghe_scalars(response_int, challenge_int) ==
    LET s_scalar == response_int % U128
        c_scalar == challenge_int % U128
    IN  [routine |-> "generate_hints_exact", s_scalar |-> s_scalar, c_scalar |-> c_scalar,
         c_neg_scalar |-> (ED25519_ORDER - c_scalar) % ED25519_ORDER]

\* verify_fake_glv_decomposition.main, lines 86-102
vfg_scalars(response_int, challenge_int) ==
    LET response_low == response_int % U128
        response_high == (response_int \div U128) % U128
        cairo_response == response_low + response_high * U128
        s_scalar_truncated == cairo_response % U128
        s_scalar == s_scalar_truncated % ED25519_ORDER
        challenge_low == challenge_int % U128
        challenge_high == (challenge_int \div U128) % U128
        cairo_challenge == challenge_low + challenge_high * U128
        c_scalar_truncated == cairo_challenge % U128
        c_scalar == c_scalar_truncated % ED25519_ORDER
    IN  [routine |-> "verify_fake_glv_decomposition", s_scalar |-> s_scalar,
         c_scalar |-> c_scalar,
         c_neg_scalar |-> (ED25519_ORDER - c_scalar) % ED25519_ORDER]

\* generate_deploy_calldata.main, lines 130-151: the two felts of the
\* calldata (no -c is derived: -1)
gdc_scalars(response_int, challenge_int) ==
    LET challenge_val == challenge_int % U128
        response_val == response_int % U128
    IN  [routine |-> "generate_deploy_calldata", s_scalar |-> response_val,
         c_scalar |-> challenge_val, c_neg_scalar |-> -1]

\* the tools that derive the scalars
ScalarTools == {"regenerate_dleq_hints", "generate_hints_exact",
                "verify_fake_glv_decomposition", "generate_deploy_calldata"}

\* the tools that have run on the pair
ScalarToolsRun == {t_results[i].routine : i \in 1..Len(t_results)}

ScalarsInit ==
    /\ t_args \in {<<response_int, challenge_int>> :
                      response_int \in 0..(ED25519_ORDER - 1),
                      challenge_int \in 0..(ED25519_ORDER - 1)}
    /\ t_routine = "input"
    /\ t_results = <<>>
    /\ garaga_on_zero = "raise"
    /\ DecIdle
    /\ HintIdle
    /\ ProverIdle

RunRdhScalars ==
    /\ "regenerate_dleq_hints" \notin ScalarToolsRun
    /\ t_routine' = "regenerate_dleq_hints"
    /\ t_results' = Append(t_results, rdh_scalars(t_args[1], t_args[2]))
    /\ UNCHANGED <<dvars, garaga_on_zero, hvars, pvars, t_args>>

RunGheScalars ==
    /\ "generate_hints_exact" \notin ScalarToolsRun
    /\ t_routine' = "generate_hints_exact"
    /\ t_results' = Append(t_results, ghe_scalars(t_args[1], t_args[2]))
    /\ UNCHANGED <<dvars, garaga_on_zero, hvars, pvars, t_args>>

RunVfgScalars ==
    /\ "verify_fake_glv_decomposition" \notin ScalarToolsRun
    /\ t_routine' = "verify_fake_glv_decomposition"
    /\ t_results' = Append(t_results, vfg_scalars(t_args[1], t_args[2]))
    /\ UNCHANGED <<dvars, garaga_on_zero, hvars, pvars, t_args>>

RunGdcScalars ==
    /\ "generate_deploy_calldata" \notin ScalarToolsRun
    /\ t_routine' = "generate_deploy_calldata"
    /\ t_results' = Append(t_results, gdc_scalars(t_args[1], t_args[2]))
    /\ UNCHANGED <<dvars, garaga_on_zero, hvars, pvars, t_args>>

ScalarsNext ==
    \/ RunRdhScalars
    \/ RunGheScalars
    \/ RunVfgScalars
    \/ RunGdcScalars

SpecScalars == ScalarsInit /\ [][ScalarsNext]_vars

-----------------------------------------------------------------------------
(* Limbs: a coordinate is split into four limbs and joined again, or a hint *)
(* is generated for a scalar and a base point.                              *)

\* a u384: four limbs
U384 == LIMB ^ 4

LimbsInit ==
    /\ t_args \in {<<"coordinate", v>> : v \in 0..(U384 - 1)}
                    \cup {<<"hint", s, b>> : s \in 0..MaxScalar, b \in {G, Y}}
    /\ t_routine = "input"
    /\ t_results = <<>>
    /\ garaga_on_zero \in GaragaOnZero
    /\ DecIdle
    /\ HintIdle
    /\ ProverIdle

\* generate_dleq_hints.u384_to_cairo_tuple(value)
RunU384ToCairoTuple ==
    /\ t_routine = "input"
    /\ t_args[1] = "coordinate"
    /\ t_routine' = "split"
    /\ t_results' = <<u384_to_cairo_tuple(t_args[2])>>
    /\ UNCHANGED <<dvars, garaga_on_zero, hvars, pvars, t_args>>

\* generate_dleq_hints.parse_point_from_limbs.limbs_to_int(limbs)
RunLimbsToInt ==
    /\ t_routine = "split"
    /\ t_routine' = "joined"
    /\ t_results' = Append(t_results, limbs_to_int(t_results[1]))
    /\ UNCHANGED <<dvars, garaga_on_zero, hvars, pvars, t_args>>

\* generate_dleq_hints.generate_hint_for_scalar_and_base(scalar, base_point):
\* it returns (hint_felts, Q)
RunGenerateHintForScalarAndBase ==
    /\ t_routine = "input"
    /\ t_args[1] = "hint"
    /\ IF GaragaRaises(t_args[2])
       THEN t_routine' = "raised" /\ t_results' = <<>>
       ELSE /\ t_routine' = "hint"
            /\ t_results' = <<generate_hint_for_scalar_and_base(t_args[2], t_args[3]),
                              garaga_get_fake_glv_hint(t_args[3],
                                                       t_args[2] % ED25519_ORDER)[1]>>
    /\ UNCHANGED <<dvars, garaga_on_zero, hvars, pvars, t_args>>

LimbsNext ==
    \/ RunU384ToCairoTuple
    \/ RunLimbsToInt
    \/ RunGenerateHintForScalarAndBase

SpecLimbs == LimbsInit /\ [][LimbsNext]_vars

-----------------------------------------------------------------------------
(* The scalar of the hints for (-c)*T and (-c)*U, as the three generators   *)
(* derive it from the challenge.                                            *)

\* fix_all_hints.main, lines 169-183: c_scalar and c_neg_scalar_for_hint
fah_c_neg_scalar_for_hint(challenge_int) ==
    LET c_scalar == challenge_int % U128
        c_neg_scalar == (ED25519_ORDER - (c_scalar % ED25519_ORDER)) % ED25519_ORDER
        c_neg_scalar_for_hint == c_neg_scalar % U128
    IN  [routine |-> "fix_all_hints", c |-> c_scalar, c_neg |-> c_neg_scalar_for_hint]

\* generate_dleq_hints.generate_dleq_hints, lines 101-106
gdh_c_neg_scalar(c_scalar_arg) ==
    LET c_scalar == c_scalar_arg % ED25519_ORDER
        c_neg_scalar == (ED25519_ORDER - c_scalar) % ED25519_ORDER
    IN  [routine |-> "generate_dleq_hints", c |-> c_scalar, c_neg |-> c_neg_scalar]

\* generate_dleq_for_adaptor_point.generate_dleq_proof, lines 178-183; the
\* challenge is the one of compute_blake2s_challenge, reduced mod order
gdp_c_neg(challenge_digest) ==
    LET challenge == challenge_digest % ED25519_ORDER
        c_neg == (ED25519_ORDER - challenge) % ED25519_ORDER
    IN  [routine |-> "generate_dleq_for_adaptor_point", c |-> challenge, c_neg |-> c_neg]

\* the challenge is a 32-byte value
NegationInit ==
    /\ t_args \in {<<challenge_int>> : challenge_int \in 0..(BYTE ^ NBYTES - 1)}
    /\ t_routine = "input"
    /\ t_results = <<>>
    /\ garaga_on_zero = "raise"
    /\ DecIdle
    /\ HintIdle
    /\ ProverIdle

RunFahCNegScalarForHint ==
    /\ t_routine = "input"
    /\ t_routine' = "fix_all_hints"
    /\ t_results' = <<fah_c_neg_scalar_for_hint(t_args[1])>>
    /\ UNCHANGED <<dvars, garaga_on_zero, hvars, pvars, t_args>>

RunGdhCNegScalar ==
    /\ t_routine = "input"
    /\ t_routine' = "generate_dleq_hints"
    /\ t_results' = <<gdh_c_neg_scalar(t_args[1])>>
    /\ UNCHANGED <<dvars, garaga_on_zero, hvars, pvars, t_args>>

RunGdpCNeg ==
    /\ t_routine = "input"
    /\ t_routine' = "generate_dleq_for_adaptor_point"
    /\ t_results' = <<gdp_c_neg(t_args[1])>>
    /\ UNCHANGED <<dvars, garaga_on_zero, hvars, pvars, t_args>>

NegationNext ==
    \/ RunFahCNegScalarForHint
    \/ RunGdhCNegScalar
    \/ RunGdpCNeg

SpecNegation == NegationInit /\ [][NegationNext]_vars

-----------------------------------------------------------------------------
(* tools/generate_sqrt_hints.py: xrecover_twisted_edwards                   *)

\* xrecover_twisted_edwards(y_compressed): x, or the exception raised
xrecover_twisted_edwards(y_compressed) ==
    LET sign_bit == (y_compressed \div BIT255) % 2
        y == y_compressed % BIT255
        y_sq == (y * y) % P
        numerator == (y_sq - 1) % P
        denominator == (D * y_sq + 1) % P
        inv == PowNeg1(denominator)
        x_sq == (numerator * inv) % P
        x0 == ModPow(x_sq, (P + 3) \div 8, P)
        x_sq_check == (x0 * x0) % P
        x1 == IF x_sq_check = x_sq THEN x0 ELSE (x0 * ModPow(2, (P - 1) \div 4, P)) % P
        x == IF x1 % 2 # sign_bit THEN (P - x1) % P ELSE x1
    IN  IF inv = -1 THEN Fail("DivisionByZero")
        ELSE IF x_sq_check # x_sq /\ x_sq_check # (P - x_sq) % P THEN Fail("ValueError")
        ELSE IF (x1 * x1) % P # x_sq THEN Fail("AssertionError")
        ELSE Point(x, y)

-----------------------------------------------------------------------------
(* fix_hints.py                                                             *)

\* recover_x(y): x, or the exception raised
recover_x(y) ==
    LET u == (y * y - 1) % P
        v == (D * y * y + 1) % P
        v_inv == PowNeg1(v)
        x2 == (u * v_inv) % P
        x0 == ModPow(x2, (P + 3) \div 8, P)
        x1 == IF (x0 * x0) % P # x2 THEN (x0 * I) % P ELSE x0
        \* if x % 2 != 0: x = p - x
        x == IF x1 % 2 # 0 THEN P - x1 ELSE x1
    IN  IF v_inv = -1 THEN Fail("DivisionByZero")
        ELSE IF (x1 * x1) % P # x2 THEN Fail("NoSquareRoot")
        ELSE Point(x, y)

\* the module level of fix_hints.py for one point: the sign bit is read and
\* recover_x is called on the y coordinate
fh_recover(point_bytes) ==
    LET y_int == IntFromBytesLE(point_bytes)
        sign_bit == (y_int \div BIT255) % 2
        y_coordinate == y_int % BIT255
    IN  recover_x(y_coordinate)

-----------------------------------------------------------------------------
(* Recovery of x: one routine that computes the root itself is run on one   *)
(* compressed point.                                                        *)

\* the (low, high) pair of a hint as the integer it denotes
HintAsPoint(h) == IF h.ok THEN [ok |-> TRUE, err |-> "", x |-> h.low + h.high * U128, y |-> -1]
                  ELSE Fail(h.err)

RecoverInit ==
    /\ t_args \in {<<b>> : b \in ByteStrings}
    /\ t_routine = "input"
    /\ t_results = <<>>
    /\ garaga_on_zero = "raise"
    /\ DecIdle
    /\ HintIdle
    /\ ProverIdle

\* generate_correct_sqrt_hints.get_correct_sqrt_hint(compressed_hex)
RecoverGetCorrectSqrtHint ==
    /\ t_routine = "input"
    /\ t_routine' = "generate_correct_sqrt_hints"
    /\ t_results' = <<HintAsPoint(get_correct_sqrt_hint(t_args[1]))>>
    /\ UNCHANGED <<dvars, garaga_on_zero, hvars, pvars, t_args>>

\* fix_all_hints.decompress_edwards_point(compressed_hex), with sqrt_mod_p
RecoverFahDecompressEdwardsPoint ==
    /\ t_routine = "input"
    /\ t_routine' = "fix_all_hints"
    /\ t_results' = <<fah_decompress_edwards_point(t_args[1])>>
    /\ UNCHANGED <<dvars, garaga_on_zero, hvars, pvars, t_args>>

\* regenerate_garaga_hints.decompress_ed25519_point, with sqrt_ed25519
RecoverDecompressEd25519Point ==
    /\ t_routine = "input"
    /\ t_routine' = "regenerate_garaga_hints"
    /\ t_results' = <<decompress_ed25519_point(t_args[1])>>
    /\ UNCHANGED <<dvars, garaga_on_zero, hvars, pvars, t_args>>

\* generate_sqrt_hints.xrecover_twisted_edwards(y | sign_bit << 255)
RecoverXrecoverTwistedEdwards ==
    /\ t_routine = "input"
    /\ t_routine' = "generate_sqrt_hints"
    /\ t_results' = <<xrecover_twisted_edwards(IntFromBytesLE(t_args[1]))>>
    /\ UNCHANGED <<dvars, garaga_on_zero, hvars, pvars, t_args>>

\* fix_hints.py: recover_x on the y coordinate of the point
RecoverFixHints ==
    /\ t_routine = "input"
    /\ t_routine' = "fix_hints"
    /\ t_results' = <<fh_recover(t_args[1])>>
    /\ UNCHANGED <<dvars, garaga_on_zero, hvars, pvars, t_args>>

RecoverNext ==
    \/ RecoverGetCorrectSqrtHint
    \/ RecoverFahDecompressEdwardsPoint
    \/ RecoverDecompressEd25519Point
    \/ RecoverXrecoverTwistedEdwards
    \/ RecoverFixHints

SpecRecover == RecoverInit /\ [][RecoverNext]_vars

-----------------------------------------------------------------------------
(* The stored challenge: the two verification scripts are run on the same   *)
(* test vector, each once, in either order.                                 *)

\* the scripts that have run on the vector
VerdictsGiven == {t_results[i].routine : i \in 1..Len(t_results)}

StoredChallengeInit ==
    /\ t_args \in {<<tv>> : tv \in TestVectors}
    /\ t_routine = "input"
    /\ t_results = <<>>
    /\ garaga_on_zero = "raise"
    /\ DecIdle
    /\ HintIdle
    /\ ProverIdle

\* verify_full_compatibility.verify_blake2s_digest: True or False
VerdictOfVerifyBlake2sDigest ==
    /\ "verify_full_compatibility" \notin VerdictsGiven
    /\ t_routine' = "verify_full_compatibility"
    /\ t_results' = Append(t_results,
                        [routine |-> "verify_full_compatibility",
                         matches |-> verify_blake2s_digest(t_args[1]).returned])
    /\ UNCHANGED <<dvars, garaga_on_zero, hvars, pvars, t_args>>

\* verify_challenge_computation.compute_dleq_challenge_python: FULL
\* CHALLENGE MATCHES or MISMATCH
VerdictOfComputeDleqChallengePython ==
    /\ "verify_challenge_computation" \notin VerdictsGiven
    /\ t_routine' = "verify_challenge_computation"
    /\ t_results' = Append(t_results,
                        [routine |-> "verify_challenge_computation",
                         matches |-> compute_dleq_challenge_python(t_args[1]).returned.matches_full])
    /\ UNCHANGED <<dvars, garaga_on_zero, hvars, pvars, t_args>>

StoredChallengeNext ==
    \/ VerdictOfVerifyBlake2sDigest
    \/ VerdictOfComputeDleqChallengePython

SpecStoredChallenge == StoredChallengeInit /\ [][StoredChallengeNext]_vars

-----------------------------------------------------------------------------
(* test_vectors.json under generate_sqrt_hints.main and                     *)
(* regenerate_garaga_hints.main.  The file is a record: compressed holds    *)
(* the <point>_compressed keys, sqrt_hint the <point>_sqrt_hint keys,       *)
(* sqrt_hint_u256 the <point>_sqrt_hint_u256 keys, challenge a key neither  *)
(* tool writes.  A JSON value is tagged by its form: "absent", "int" (a     *)
(* JSON number), "hex" (a string hex(n)), "string" (the bytes a hex string  *)
(* spells).                                                                 *)

PointNames == {"adaptor_point", "second_point", "r1", "r2"}

Absent == [form |-> "absent"]

\* n as nbytes bytes, most significant first: f"{n:0{2*nbytes}x}"
IntToBytesBE(n, nbytes) == [i \in 1..nbytes |-> IntToBytesLE(n, nbytes)[nbytes + 1 - i]]

\* generate_sqrt_hints.split_128, int_to_u256
gsh_int_to_u256(value) == [low |-> value % U128, high |-> (value \div U128) % U128]

\* generate_sqrt_hints.main, lines 134-170: the file after the run; the
\* file is left as it was when xrecover_twisted_edwards raises
gsh_main(test_vector) ==
    LET x_twisted == [n \in PointNames |->
                        xrecover_twisted_edwards(IntFromBytesBE(test_vector.compressed[n]))]
        updated_hints == [n \in PointNames |-> gsh_int_to_u256(x_twisted[n].x)]
    IN  IF \E n \in PointNames : ~x_twisted[n].ok THEN test_vector
        ELSE [test_vector EXCEPT
                !.sqrt_hint = [n \in PointNames |->
                    [form |-> "string", prefix |-> "0x",
                     bytes |-> IntToBytesBE(updated_hints[n].low, NBYTES \div 2)
                               \o IntToBytesBE(updated_hints[n].high, NBYTES \div 2)]],
                !.sqrt_hint_u256 = [n \in PointNames |->
                    [low |-> [form |-> "int", value |-> updated_hints[n].low],
                     high |-> [form |-> "int", value |-> updated_hints[n].high]]]]

\* regenerate_garaga_hints.main, lines 184-202: the file written from the
\* results of the four points
rgh_write(vectors, results) ==
    LET zeros == [i \in 1..(NBYTES - NBYTES \div 2) |-> 0]
    IN  [vectors EXCEPT
            !.sqrt_hint = [n \in PointNames |->
                [form |-> "string", prefix |-> "",
                 bytes |-> zeros \o IntToBytesLE(results[n].high, NBYTES \div 2)
                           \o zeros \o IntToBytesLE(results[n].low, NBYTES \div 2)]],
            !.sqrt_hint_u256 = [n \in PointNames |->
                [low |-> [form |-> "hex", value |-> results[n].low],
                 high |-> [form |-> "hex", value |-> results[n].high]]]]

\* regenerate_garaga_hints.main, lines 139-202: the file after the run (the
\* four results are computed first, once each); on an exception of
\* generate_sqrt_hint_u256 the script exits before writing
rgh_main(vectors) ==
    CHOOSE written \in
        {IF a.ok /\ b.ok /\ c.ok /\ e.ok
         THEN rgh_write(vectors, [adaptor_point |-> a, second_point |-> b, r1 |-> c, r2 |-> e])
         ELSE vectors :
            a \in {generate_sqrt_hint_u256(vectors.compressed.adaptor_point)},
            b \in {generate_sqrt_hint_u256(vectors.compressed.second_point)},
            c \in {generate_sqrt_hint_u256(vectors.compressed.r1)},
            e \in {generate_sqrt_hint_u256(vectors.compressed.r2)}} : TRUE

\* int(value, 16) of the readers (generate_hints_exact.main lines 114-120,
\* regenerate_dleq_hints.main lines 187-201, debug_hints): the integer, or
\* -1 for the TypeError int() raises on a value that is not a string
int_base16(json_value) == IF json_value.form = "hex" THEN json_value.value ELSE -1

\* compressed points a file can hold: G, Y = 2G, and two more points; r1 and
\* r2 are fixed to two of them
PointSamples == {Compress(G[1], G[2]), Compress(Y[1], Y[2]), <<1, 1>>, <<0, 1>>}

TestVectorFiles ==
    {[compressed |-> [adaptor_point |-> t, second_point |-> u,
                      r1 |-> Compress(G[1], G[2]), r2 |-> <<1, 1>>],
      sqrt_hint |-> [n \in PointNames |-> Absent],
      sqrt_hint_u256 |-> [n \in PointNames |-> Absent],
      challenge |-> <<1, 2>>] : t \in ByteStrings, u \in PointSamples}

\* t_args holds the file as it was first, t_results the file as it is and
\* the tool that wrote it last
FileInit ==
    /\ t_args \in {<<f>> : f \in TestVectorFiles}
    /\ t_routine = "input"
    /\ t_results = <<t_args[1], "">>
    /\ garaga_on_zero = "raise"
    /\ DecIdle
    /\ HintIdle
    /\ ProverIdle

RunGenerateSqrtHintsMain ==
    /\ t_routine' = "generate_sqrt_hints"
    /\ \E written \in {gsh_main(t_results[1])} :
          t_results' = <<written, IF written = t_results[1] THEN t_results[2]
                                  ELSE "generate_sqrt_hints">>
    /\ UNCHANGED <<dvars, garaga_on_zero, hvars, pvars, t_args>>

RunRegenerateGaragaHintsMain ==
    /\ t_routine' = "regenerate_garaga_hints"
    /\ \E written \in {rgh_main(t_results[1])} :
          t_results' = <<written, IF written = t_results[1] THEN t_results[2]
                                  ELSE "regenerate_garaga_hints">>
    /\ UNCHANGED <<dvars, garaga_on_zero, hvars, pvars, t_args>>

FileNext ==
    \/ RunGenerateSqrtHintsMain
    \/ RunRegenerateGaragaHintsMain

SpecFile == FileInit /\ [][FileNext]_vars

-----------------------------------------------------------------------------
(* tools/verify_fake_glv_decomposition.py: main, from the scalars on.  T    *)
(* and U are the points main has decompressed.                              *)

\* lines 139-142: [0] * 10 with s1 and s2_encoded of the library call
vfg_placeholder_hint(point, scalar) ==
    [i \in 1..10 |-> IF i = 9 THEN garaga_get_fake_glv_hint(point, scalar)[2]
                     ELSE IF i = 10 THEN garaga_get_fake_glv_hint(point, scalar)[3]
                     ELSE 0]

\* main, lines 86-167: what the four verify_hint calls returned, and the
\* last line main printed; a get_fake_glv_hint call of main that raises
\* ends the script
vfg_main(response_int, challenge_int, T_point, U_point) ==
    LET sc == vfg_scalars(response_int, challenge_int)
        s_scalar == sc.s_scalar
        c_neg_scalar == sc.c_neg_scalar
        s_returned == <<verify_hint(G, s_scalar, vfg_placeholder_hint(G, s_scalar),
                                    GaragaRaises(s_scalar)),
                        verify_hint(Y, s_scalar, vfg_placeholder_hint(Y, s_scalar),
                                    GaragaRaises(s_scalar))>>
        c_returned == <<verify_hint(T_point, c_neg_scalar,
                                    vfg_placeholder_hint(T_point, c_neg_scalar),
                                    GaragaRaises(c_neg_scalar)),
                        verify_hint(U_point, c_neg_scalar,
                                    vfg_placeholder_hint(U_point, c_neg_scalar),
                                    GaragaRaises(c_neg_scalar))>>
    IN  IF GaragaRaises(s_scalar) THEN [raised |-> TRUE, returned |-> <<>>, report |-> ""]
        ELSE IF GaragaRaises(c_neg_scalar)
             THEN [raised |-> TRUE, returned |-> s_returned, report |-> ""]
        ELSE [raised |-> FALSE, returned |-> s_returned \o c_returned,
              report |-> "All hints verified successfully!"]

VfgMainInit ==
    /\ t_args \in {<<response_int, challenge_int, T_point, Y>> :
                      response_int \in 0..MaxScalar, challenge_int \in 0..MaxScalar,
                      T_point \in {G, Y}}
    /\ t_routine = "input"
    /\ t_results = <<>>
    /\ garaga_on_zero \in GaragaOnZero
    /\ DecIdle
    /\ HintIdle
    /\ ProverIdle

RunVfgMain ==
    /\ t_routine = "input"
    /\ t_routine' = "verify_fake_glv_decomposition"
    /\ t_results' = <<vfg_main(t_args[1], t_args[2], t_args[3], t_args[4])>>
    /\ UNCHANGED <<dvars, garaga_on_zero, hvars, pvars, t_args>>

VfgMainNext == RunVfgMain

SpecVfgMain == VfgMainInit /\ [][VfgMainNext]_vars

-----------------------------------------------------------------------------
(* The scalar of a hashlock: tools/generate_adaptor_point_hint.py and       *)
(* tools/generate_ed25519_test_data.py.                                     *)

\* sum of words[i] * 2^(32 i), i from 0
RECURSIVE words_to_scalar_raw(_)
words_to_scalar_raw(words) ==
    IF words = <<>> THEN 0
    ELSE Head(words) + (BYTE ^ WORD) * words_to_scalar_raw(Tail(words))

\* generate_adaptor_point_hint.hashlock_to_scalar(hashlock_bytes): the
\* words it builds and the scalar it returns
hashlock_to_scalar(hashlock_bytes) ==
    LET words == [i \in 1..(NBYTES \div WORD) |->
                    IntFromBytesLE(SubSeq(hashlock_bytes, (i - 1) * WORD + 1, i * WORD))]
        scalar == words_to_scalar_raw(words)
    IN  [routine |-> "generate_adaptor_point_hint", words |-> words,
         scalar |-> scalar % ED25519_ORDER]

\* generate_ed25519_test_data.sha256_words(secret)
sha256_words(secret) ==
    LET digest == sha256(secret)
    IN  [i \in 1..(NBYTES \div WORD) |->
            IntFromBytesBE(SubSeq(digest, (i - 1) * WORD + 1, i * WORD))]

\* generate_ed25519_test_data.generate_ed25519_test_data, lines 57-65:
\* hash_words and scalar_int
getd_scalar_int(secret_bytes) ==
    LET hash_words == sha256_words(secret_bytes)
        scalar_raw == words_to_scalar_raw(hash_words)
    IN  [routine |-> "generate_ed25519_test_data", words |-> hash_words,
         scalar |-> scalar_raw % ED25519_ORDER]

\* the tools that have run on the secret
HashlockToolsRun == {t_results[i].routine : i \in 1..Len(t_results)}

HashlockInit ==
    /\ t_args \in {<<secret_bytes>> : secret_bytes \in ByteStrings}
    /\ t_routine = "input"
    /\ t_results = <<>>
    /\ garaga_on_zero = "raise"
    /\ DecIdle
    /\ HintIdle
    /\ ProverIdle

\* generate_adaptor_point_hint: hashlock_to_scalar on the hashlock of the
\* test vectors, the SHA-256 digest of the secret
RunHashlockToScalar ==
    /\ "generate_adaptor_point_hint" \notin HashlockToolsRun
    /\ t_routine' = "generate_adaptor_point_hint"
    /\ t_results' = Append(t_results, hashlock_to_scalar(hashlock_from_secret(t_args[1])))
    /\ UNCHANGED <<dvars, garaga_on_zero, hvars, pvars, t_args>>

RunGenerateEd25519TestData ==
    /\ "generate_ed25519_test_data" \notin HashlockToolsRun
    /\ t_routine' = "generate_ed25519_test_data"
    /\ t_results' = Append(t_results, getd_scalar_int(t_args[1]))
    /\ UNCHANGED <<dvars, garaga_on_zero, hvars, pvars, t_args>>

\* generate_dleq_for_adaptor_point.hashlock_to_u32_array (no scalar: -1)
RunHashlockToU32Array ==
    /\ "generate_dleq_for_adaptor_point" \notin HashlockToolsRun
    /\ t_routine' = "generate_dleq_for_adaptor_point"
    /\ t_results' = Append(t_results,
                        [routine |-> "generate_dleq_for_adaptor_point",
                         words |-> hashlock_to_u32_array(hashlock_from_secret(t_args[1])),
                         scalar |-> -1])
    /\ UNCHANGED <<dvars, garaga_on_zero, hvars, pvars, t_args>>

HashlockNext ==
    \/ RunHashlockToScalar
    \/ RunGenerateEd25519TestData
    \/ RunHashlockToU32Array

SpecHashlock == HashlockInit /\ [][HashlockNext]_vars

-----------------------------------------------------------------------------
(* tools/discover_sqrt_hints.py                                             *)

\* lines 28-31: Q and S with p - 1 = Q * 2^S, as <<Q, S>>
RECURSIVE ts_split(_, _)
ts_split(Q, S) == IF Q % 2 = 0 THEN ts_split(Q \div 2, S + 1) ELSE <<Q, S>>

\* lines 34-36: the first z from 2 on that is not a square mod p
RECURSIVE ts_non_residue(_, _)
ts_non_residue(z, p) ==
    IF ModPow(z, (p - 1) \div 2, p) # p - 1 THEN ts_non_residue(z + 1, p) ELSE z

\* lines 48-52: the least i with t^(2^i) = 1
RECURSIVE ts_least_i(_, _, _)
ts_least_i(i, temp, p) ==
    IF temp # 1 THEN ts_least_i(i + 1, (temp * temp) % p, p) ELSE i

\* lines 43-59: the loop 'while True'
RECURSIVE ts_loop(_, _, _, _, _)
ts_loop(M, c, t, R, p) ==
    IF t = 1 THEN R
    ELSE LET i == ts_least_i(1, (t * t) % p, p)
             b == ModPow(c, 2 ^ (M - i - 1), p)
             c2 == (b * b) % p
         IN  ts_loop(i, c2, (t * c2) % p, (R * b) % p, p)

\* tonelli_shanks_sqrt(n, p): R, or -1 for None
tonelli_shanks_sqrt(n, p) ==
    IF ModPow(n, (p - 1) \div 2, p) # 1 THEN -1
    ELSE LET QS == ts_split(p - 1, 0)
             Q == QS[1]
             S == QS[2]
             z == ts_non_residue(2, p)
         IN  ts_loop(S, ModPow(z, Q, p), ModPow(n, Q, p), ModPow(n, (Q + 1) \div 2, p), p)

\* compressed_to_y(compressed_hex)
compressed_to_y(hex_str) == IntFromBytesLE(hex_str) % BIT255

\* compute_candidate_sqrt_hints(compressed_hex): the list of candidates
compute_candidate_sqrt_hints(hex_str) ==
    LET y == compressed_to_y(hex_str)
        numerator == (y * y - 1) % P
        denominator == (D * y * y + 1) % P
        x_squared == (numerator * PowNeg1(denominator)) % P
        sqrt_candidate == tonelli_shanks_sqrt(x_squared, P)
        candidates == <<sqrt_candidate, P - sqrt_candidate>>
    IN  IF sqrt_candidate = -1 THEN <<>>
        ELSE [k \in 1..2 |-> [value |-> candidates[k], low |-> candidates[k] % U128,
                              high |-> candidates[k] \div U128]]

-----------------------------------------------------------------------------
(* Square roots: tonelli_shanks_sqrt on n and an odd prime p, or            *)
(* compute_candidate_sqrt_hints on a compressed point.                      *)

\* the odd primes p of the runs
OddPrimes == {3, 5, 7, 11, 13, 17, 41, P}

TonelliInit ==
    /\ t_args \in {<<"tonelli_shanks_sqrt", n, p>> : n \in 0..(P - 1), p \in OddPrimes}
                    \cup {<<"compute_candidate_sqrt_hints", b>> : b \in ByteStrings}
    /\ t_args[1] = "tonelli_shanks_sqrt" => t_args[2] < t_args[3]
    /\ t_routine = "input"
    /\ t_results = <<>>
    /\ garaga_on_zero = "raise"
    /\ DecIdle
    /\ HintIdle
    /\ ProverIdle

RunTonelliShanksSqrt ==
    /\ t_routine = "input"
    /\ t_args[1] = "tonelli_shanks_sqrt"
    /\ t_routine' = "tonelli_shanks_sqrt"
    /\ t_results' = <<tonelli_shanks_sqrt(t_args[2], t_args[3])>>
    /\ UNCHANGED <<dvars, garaga_on_zero, hvars, pvars, t_args>>

RunComputeCandidateSqrtHints ==
    /\ t_routine = "input"
    /\ t_args[1] = "compute_candidate_sqrt_hints"
    /\ t_routine' = "compute_candidate_sqrt_hints"
    /\ t_results' = <<compute_candidate_sqrt_hints(t_args[2])>>
    /\ UNCHANGED <<dvars, garaga_on_zero, hvars, pvars, t_args>>

TonelliNext ==
    \/ RunTonelliShanksSqrt
    \/ RunComputeCandidateSqrtHints

SpecTonelli == TonelliInit /\ [][TonelliNext]_vars

-----------------------------------------------------------------------------
(* Claims about decompression.                                             *)

\* the input of the run, as the routines read it
InY == IntFromBytesLE(compressed_hex) % BIT255
InSign == (IntFromBytesLE(compressed_hex) \div BIT255) % 2
InCandidate == sqrt_hint[1] + sqrt_hint[2] * U128

\* the routines that take the candidate x from the caller
HintedRoutines == {"generate_hints_exact", "verify_hint_scalars", "regenerate_dleq_hints"}

\* the input is compress((x, y)) of a curve point with candidate_x = x
InputIsCompressedPointWithItsX ==
    /\ InY < P
    /\ InCandidate < P
    /\ OnCurve(InCandidate, InY)
    /\ compressed_hex = Compress(InCandidate, InY)

C8_WrongSquareRejected ==
    (dpc \in HintedRoutines /\ (InCandidate * InCandidate) % P # XSquared(InY))
    => dres = Fail("SqrtHintInvalid")

\* a wrong candidate of the wrong parity: negated, retried, then rejected
C8_Witness ==
    /\ dpc = "regenerate_dleq_hints"
    /\ (InCandidate * InCandidate) % P # XSquared(InY)
    /\ InCandidate % P # 0
    /\ (InCandidate % P) % 2 # InSign
    /\ dres = Fail("SqrtHintInvalid")

\* the input encodes a curve point (x, y), y < p and bit 255 the parity of
\* x, and the candidate is one of the two roots r, p - r of x^2
InputIsEncodingWithARoot ==
    /\ InY < P
    /\ InCandidate <= P
    /\ OnCurve(InCandidate % P, InY)
    /\ (InCandidate % P = 0 => InSign = 0)

C10_SignBitMismatchRaised ==
    (/\ dpc \in {"regenerate_garaga_hints", "generate_hints_exact", "fix_all_hints"}
     /\ XSquared(InY) = 0
     /\ InSign = 1
     /\ (dpc = "generate_hints_exact" => InCandidate % P = 0))
    => dres = Fail("SignBitMismatch")

\* C11 (as claimed): the accepted encodings are canonical: an encoding
\* whose y field is p or larger is rejected, and an accepted encoding is
\* the compression of the point returned, so that no two distinct
\* encodings are accepted and yield the same point.
C11_EncodingsCanonical ==
    (dpc \in {"fix_all_hints", "regenerate_garaga_hints", "generate_hints_exact"}
        /\ dres.ok)
    => /\ InY < P
       /\ compressed_hex = Compress(dres.x % P, dres.y % P)

\* the x-coordinate (sqrt hint) a routine returned: the x of the point,
\* or low + high * 2^128 of the hint
ReturnedX ==
    IF dpc \in {"generate_correct_sqrt_hints",
                "regenerate_garaga_hints.generate_sqrt_hint_u256"}
    THEN dres.low + dres.high * U128
    ELSE dres.x

\* C19 (as claimed): every x-coordinate (sqrt hint) a decompression or
\* sqrt-hint routine returns is a reduced field element, 0 <= x < p, for
\* every accepted encoding, including those with x^2 = 0 and either
\* value of the sign bit.
C19_ReturnedXReduced ==
    (dpc \in {"fix_all_hints", "generate_correct_sqrt_hints",
              "regenerate_garaga_hints.generate_sqrt_hint_u256"}
        /\ dres.ok)
    => ReturnedX \in 0..(P - 1)

-----------------------------------------------------------------------------
(* Claims about hints.                                                     *)

\* the claimed point Q of the hint (elements 0-7)
HintQ == <<limbs_to_int(SubSeq(h_hint, 1, 4)), limbs_to_int(SubSeq(h_hint, 5, 8))>>

\* the three conditions on (s1, s2_encoded) for the scalar k
HintConditions(k, s1, s2_encoded) ==
    /\ (s1 + k * decode(s2_encoded)) % ED25519_ORDER = 0
    /\ s1 > 0
    /\ decode(s2_encoded) # 0

\* C3 (as claimed): for every scalar k in [0, l) and base point P, the hint
\* returned by each hint generator (fix_all_hints.get_fake_glv_hint
\* included) has Q = k*P and satisfies (s1 + k*decode(s2_encoded)) mod l = 0,
\* s1 > 0 and decode(s2_encoded) # 0.
C3_GeneratedHintValid ==
    (h_pc \in {"fix_all_hints", "generate_dleq_hints"} /\ h_scalar < ED25519_ORDER)
    => /\ HintQ = ScalarMul(h_scalar, h_base)
       /\ HintConditions(h_scalar, h_hint[9], h_hint[10])

\* C6 (as claimed): every hint-checking routine reports a hint valid only
\* if the congruence, s1 > 0 and decode(s2_encoded) # 0 all hold, and
\* invalid whenever one fails, so the three routines agree on every
\* (k, s1, s2_encoded).
C6_CheckersEnforceAllThree ==
    (h_checker # "" /\ h_scalar < ED25519_ORDER)
    => (h_verdict = "valid" <=> HintConditions(h_scalar, h_hint[9], h_hint[10]))

\* C7 (as claimed): the hint verifier never accepts a hint whose claimed
\* point Q is not on the curve, even when the congruence, s1 > 0 and
\* s2 # 0 all hold.
C7_OffCurveQRejected ==
    (h_checker = "verify_fake_glv_decomposition" /\ ~OnCurve(HintQ[1], HintQ[2]))
    => h_verdict # "valid"

-----------------------------------------------------------------------------
(* Claims about hints: the encoding of s2.                                 *)

-----------------------------------------------------------------------------
(* Claims about hex strings.                                               *)

\* C17 (as claimed): every tool that consumes a 32-byte compressed-point
\* hex string reads it as a little-endian integer: hex_to_cairo_u256,
\* fix_compressed_point_to_u256, generate_deploy_calldata.u256_to_felts
\* and generate_sqrt_hints.main obtain the same 256-bit value, low and
\* high halves those of the little-endian integer of the bytes.
C17_HexLittleEndian ==
    (/\ t_routine \in {"hex_to_cairo_u256", "fix_compressed_points",
                        "generate_deploy_calldata", "generate_sqrt_hints"}
     /\ Len(t_args[1]) = NBYTES)
    => /\ t_results[1].raised = ""
       /\ t_results[1].low = IntFromBytesLE(t_args[1]) % U128
       /\ t_results[1].high = IntFromBytesLE(t_args[1]) \div U128

-----------------------------------------------------------------------------
(* Claims about the scalars.                                               *)

\* C18 (as claimed): one truncation policy is applied uniformly: for a
\* (response, challenge) pair of a proof, regenerate_dleq_hints,
\* generate_hints_exact, verify_fake_glv_decomposition and
\* generate_deploy_calldata derive the same scalar s and the same scalar
\* c, hence the same -c mod l.
C18_OneTruncationPolicy ==
    t_routine \in ScalarTools
    => \A i, j \in 1..Len(t_results) :
          /\ t_results[i].s_scalar = t_results[j].s_scalar
          /\ t_results[i].c_scalar = t_results[j].c_scalar
          /\ (t_results[i].c_neg_scalar # -1 /\ t_results[j].c_neg_scalar # -1)
                => t_results[i].c_neg_scalar = t_results[j].c_neg_scalar

-----------------------------------------------------------------------------
(* Claims about the challenge.                                             *)

\* the challenge of a vector by the formula:
\* int_little_endian(H(tag || G || Y || T || U || R1 || R2 || context)) mod l
ChallengeFormula(tv) ==
    IntFromBytesLE(blake2s(DLEQ_TAG \o tv.g_compressed \o tv.y_compressed
                           \o tv.adaptor_point_compressed \o tv.second_point_compressed
                           \o tv.r1_compressed \o tv.r2_compressed \o tv.hashlock))
        % ED25519_ORDER

\* the seven fields of a vector that are hashed
HashedFields(tv) ==
    <<tv.g_compressed, tv.y_compressed, tv.adaptor_point_compressed,
      tv.second_point_compressed, tv.r1_compressed, tv.r2_compressed, tv.hashlock>>

\* C12: the challenge each of the three implementations computes is
\* int_little_endian(H(DLEQ || G || Y || T || U || R1 || R2 || context)) mod l,
\* the fields in that order, and lies in [0, l); so the three return the
\* same challenge for the same inputs.
C12_ChallengeFormula ==
    \A i \in 1..Len(t_results) :
        (t_routine \in {"generate_dleq_for_adaptor_point", "verify_full_compatibility",
                        "verify_challenge_computation"})
        => /\ t_results[i].challenge = ChallengeFormula(t_args[i])
           /\ t_results[i].challenge \in 0..(ED25519_ORDER - 1)

\* the concatenating routine ran on a vector of 32-byte fields with T # U
\* whose digest has two different halves, and found the challenge
C12_Witness ==
    /\ t_routine = "verify_challenge_computation"
    /\ Len(t_results) = 1
    /\ \A j \in 1..7 : Len(HashedFields(t_args[1])[j]) = NBYTES
    /\ t_args[1].adaptor_point_compressed # t_args[1].second_point_compressed
    /\ LET digest == blake2s(t_results[1].fed)
       IN  digest[1] # digest[2]
    /\ t_results[1].challenge = ChallengeFormula(t_args[1])

\* C13 (as claimed): the bytes fed to the challenge hash are always
\* 4 + 6*32 + 32 bytes of fixed-size fields (a call that hashes has
\* rejected no field), and two distinct tuples (G, Y, T, U, R1, R2,
\* context) never give the same hash input.
C13_FixedSizeFields ==
    (t_routine \in {"generate_dleq_for_adaptor_point", "verify_full_compatibility",
                    "verify_challenge_computation"})
    => /\ \A i \in 1..Len(t_results) :
            t_results[i].raised = ""
            => /\ Len(t_results[i].fed) = Len(DLEQ_TAG) + 7 * NBYTES
               /\ \A j \in 1..7 : Len(HashedFields(t_args[i])[j]) = NBYTES
       /\ \A i, j \in 1..Len(t_results) :
            HashedFields(t_args[i]) # HashedFields(t_args[j])
            => t_results[i].fed # t_results[j].fed

-----------------------------------------------------------------------------
(* Claims about the nonce.                                                 *)

\* C15: two runs whose (secret scalar t, context) differ give the hash
\* different bytes, so that with the hash treated as collision-free their
\* nonces differ; the nonce is SHA-256(t as 32 little-endian bytes ||
\* context || 0x00) reduced mod l and depends on nothing else (runs with
\* the same t and context have the same nonce).
C15_NonceNotReused ==
    t_routine = "generate_deterministic_nonce"
    => /\ \A i \in 1..Len(t_results) :
            /\ t_results[i].fed = IntToBytesLE(t_args[i].secret_scalar, NBYTES)
                                    \o t_args[i].hashlock \o <<0>>
            /\ t_results[i].k = IntFromBytesLE(sha256(t_results[i].fed)) % ED25519_ORDER
       /\ \A i, j \in 1..Len(t_results) :
            /\ t_args[i] # t_args[j] => t_results[i].fed # t_results[j].fed
            /\ t_args[i] = t_args[j] => t_results[i].k = t_results[j].k

\* two runs with the same t and different contexts hashed different bytes
C15_Witness ==
    /\ t_routine = "generate_deterministic_nonce"
    /\ Len(t_results) = 2
    /\ t_args[1].secret_scalar = t_args[2].secret_scalar
    /\ t_args[1].secret_scalar > 0
    /\ t_args[1].hashlock # t_args[2].hashlock
    /\ t_results[1].fed # t_results[2].fed
    /\ t_results[1].k # t_results[2].k

-----------------------------------------------------------------------------
(* Claims about the prover.                                                *)

\* the statement is the prover's own: T = t*G (and U = t*Y)
OwnStatement ==
    /\ locals.T = ScalarMul(locals.secret_scalar, G)
    /\ locals.U = ScalarMul(locals.secret_scalar, Y)

\* the challenge recomputed from the transcript (G, Y, T, U, R1, R2, context)
RecomputedChallenge ==
    compute_blake2s_challenge(
        compress_edwards_pt_to_y_compressed_le(G),
        compress_edwards_pt_to_y_compressed_le(Y),
        compress_edwards_pt_to_y_compressed_le(locals.T),
        compress_edwards_pt_to_y_compressed_le(locals.U),
        u256_to_bytes(proof.r1_compressed),
        u256_to_bytes(proof.r2_compressed),
        locals.hashlock)

StepOrder ==
    {<<"Init", "StatementDerived">>, <<"StatementDerived", "NonceChosen">>,
     <<"NonceChosen", "Committed">>, <<"Committed", "ChallengeComputed">>,
     <<"ChallengeComputed", "ResponseComputed">>, <<"ResponseComputed", "Done">>}

\* the challenge over the commitments R1, R2 held in the locals
ChallengeOverCommitments(l) ==
    ChallengeFormula([g_compressed |-> Compress(G[1], G[2]),
                      y_compressed |-> Compress(Y[1], Y[2]),
                      adaptor_point_compressed |-> Compress(l.T[1], l.T[2]),
                      second_point_compressed |-> Compress(l.U[1], l.U[2]),
                      r1_compressed |-> Compress(l.R1[1], l.R1[2]),
                      r2_compressed |-> Compress(l.R2[1], l.R2[2]),
                      hashlock |-> l.hashlock])

\* what a step of the prover may do
ProverStep ==
    /\ pc' # pc =>
          \/ <<pc, pc'>> \in StepOrder
          \/ pc' = "Raised" /\ pc \notin {"Done", "Raised"} /\ proof' = NoProof
          \/ pc \in {"Done", "Raised"} /\ pc' = "Init" /\ run' = run + 1
    /\ pc' = pc => (locals' = locals /\ proof' = proof)
    /\ (pc' # pc /\ pc' = "NonceChosen") =>
          /\ locals'.k \in 0..(ED25519_ORDER - 1)
          /\ locals'.R1 = <<>> /\ locals'.R2 = <<>>
          /\ locals'.challenge = -1 /\ locals'.response = -1
    /\ (pc' # pc /\ pc' = "Committed") =>
          /\ locals'.k = locals.k
          /\ locals'.R1 = ScalarMul(locals.k, G)
          /\ locals'.R2 = ScalarMul(locals.k, Y)
          /\ locals'.challenge = -1 /\ locals'.response = -1
    /\ (pc' # pc /\ pc' = "ChallengeComputed") =>
          /\ locals'.k = locals.k
          /\ locals'.R1 = locals.R1 /\ locals'.R2 = locals.R2
          /\ locals'.challenge = ChallengeOverCommitments(locals)
          /\ locals'.response = -1
    /\ (pc' # pc /\ pc' = "ResponseComputed") =>
          /\ locals'.k = locals.k
          /\ locals'.R1 = locals.R1 /\ locals'.R2 = locals.R2
          /\ locals'.challenge = locals.challenge
          /\ locals'.response
               = (locals.k + locals.challenge * locals.secret_scalar) % ED25519_ORDER
    /\ (pc' # pc /\ pc' = "Done") =>
          /\ locals' = locals
          /\ u256_to_bytes(proof'.r1_compressed) = Compress(locals.R1[1], locals.R1[2])
          /\ u256_to_bytes(proof'.r2_compressed) = Compress(locals.R2[1], locals.R2[2])
          /\ proof'.challenge = locals.challenge
          /\ proof'.response = locals.response
          /\ proof'.response \in 0..(ED25519_ORDER - 1)

\* C14: in every run of the prover the steps happen in the order Init,
\* nonce k chosen, commitments R1 = k*G and R2 = k*Y, challenge c over
\* those R1 and R2, response s = (k + c*t) mod l, Done; no step is
\* skipped, repeated or retried (an exception ends the run), and the
\* proof emitted carries those R1, R2, c, s with 0 <= s < l.
C14_StepOrder == [][ProverStep]_vars

\* a run went through every step with k, c, t all non-zero
C14_Witness ==
    /\ pc = "Done"
    /\ locals.k > 0
    /\ locals.secret_scalar > 0
    /\ locals.challenge > 0
    /\ locals.R1 = ScalarMul(locals.k, G)
    /\ proof.response = (locals.k + locals.challenge * locals.secret_scalar) % ED25519_ORDER
    /\ proof.r1_compressed.low # proof.r1_compressed.high

-----------------------------------------------------------------------------
(* Claims about the limbs of a hint.                                        *)

\* the four limbs are below 2^96 and sum, weighted, to the value
IsSplitOf(limbs, v) ==
    /\ Len(limbs) = 4
    /\ \A i \in 1..4 : limbs[i] \in 0..(LIMB - 1)
    /\ limbs[1] + LIMB * limbs[2] + LIMB * LIMB * limbs[3]
         + LIMB * LIMB * LIMB * limbs[4] = v

\* C21: an emitted hint has exactly the 10 elements Q.x limb0..3,
\* Q.y limb0..3, s1, s2_encoded; for every coordinate 0 <= v < 2^384 each
\* limb is below 2^96, the limbs weighted by 2^(96 i) sum to v, and
\* limbs_to_int gives v back.
C21_HintLayout ==
    /\ t_routine \in {"split", "joined"} => IsSplitOf(t_results[1], t_args[2])
    /\ t_routine = "joined" => t_results[2] = t_args[2]
    /\ t_routine = "hint" =>
         LET hint_felts == t_results[1]
             Q == t_results[2]
             h == garaga_get_fake_glv_hint(t_args[3], t_args[2] % ED25519_ORDER)
         IN  /\ Len(hint_felts) = 10
             /\ IsSplitOf(SubSeq(hint_felts, 1, 4), Q[1])
             /\ IsSplitOf(SubSeq(hint_felts, 5, 8), Q[2])
             /\ hint_felts[9] = h[2]
             /\ hint_felts[10] = h[3]

\* a coordinate whose limbs are all non-zero was split and joined again
C21_Witness ==
    /\ t_routine = "joined"
    /\ t_args[2] >= LIMB * LIMB * LIMB
    /\ \A i \in 1..4 : t_results[1][i] > 0
    /\ t_results[2] = t_args[2]

-----------------------------------------------------------------------------
(* Claims about the negated challenge.                                      *)

\* C22 (as claimed): in fix_all_hints, generate_dleq_hints and
\* generate_dleq_for_adaptor_point the scalar handed to the hint generator
\* for (-c)*T and (-c)*U is -c mod l for the challenge scalar c the tool
\* uses: (c + c_neg) mod l = 0.
C22_NegatedChallenge ==
    t_routine # "input" =>
        (t_results[1].c + t_results[1].c_neg) % ED25519_ORDER = 0

-----------------------------------------------------------------------------
(* Claims about the recovery of x.                                          *)

\* the compressed point of the run: its y, its sign bit, and whether it is
\* compress((x, y)) of a curve point
RecY == IntFromBytesLE(t_args[1]) % BIT255
RecSign == (IntFromBytesLE(t_args[1]) \div BIT255) % 2
RecValid == \E x \in 0..(P - 1) : RecY < P /\ OnCurve(x, RecY) /\ t_args[1] = Compress(x, RecY)

\* C23 (as claimed): for every compressed encoding of a valid point,
\* get_correct_sqrt_hint, fix_all_hints (sqrt_mod_p), regenerate_garaga_hints
\* (sqrt_ed25519) and generate_sqrt_hints (xrecover_twisted_edwards) return
\* without raising, and the x returned has x^2 = (y^2 - 1) / (d y^2 + 1).
C23_RootFound ==
    (/\ t_routine \in {"generate_correct_sqrt_hints", "fix_all_hints",
                       "regenerate_garaga_hints", "generate_sqrt_hints"}
     /\ RecValid)
    => /\ t_results[1].ok
       /\ (t_results[1].x * t_results[1].x) % P = XSquared(RecY)

\* C24 (as claimed): the sign convention is applied uniformly: for a valid
\* point with x # 0, the x returned by fix_hints.recover_x,
\* generate_sqrt_hints.xrecover_twisted_edwards,
\* regenerate_garaga_hints.decompress_ed25519_point and
\* fix_all_hints.decompress_edwards_point has the parity of bit 255 of
\* the encoding, so all of them return the x of the point.
C24_SignConvention ==
    (/\ t_routine \in {"fix_hints", "generate_sqrt_hints",
                       "regenerate_garaga_hints", "fix_all_hints"}
     /\ RecValid
     /\ XSquared(RecY) # 0)
    => /\ t_results[1].ok
       /\ t_results[1].x % 2 = RecSign
       /\ t_args[1] = Compress(t_results[1].x, RecY)

-----------------------------------------------------------------------------
(* Claims about the sqrt hints of a proof.                                  *)

\* hint (a u256) squares to (y^2 - 1) / (d y^2 + 1) for the y of the
\* compressed point (a u256)
IsSqrtHintOf(hint, compressed) ==
    LET hint_int == hint.low + hint.high * U128
        y == IntFromBytesLE(u256_to_bytes(compressed)) % BIT255
    IN  (hint_int * hint_int) % P = XSquared(y)

\* C25 (as claimed): in the proof emitted by generate_dleq_proof each
\* *_sqrt_hint field is a valid sqrt hint for its *_compressed field:
\* hint^2 = (y^2 - 1) / (d y^2 + 1) mod p.
C25_SqrtHintsOfProof ==
    pc = "Done" =>
        /\ IsSqrtHintOf(proof.adaptor_point_sqrt_hint, proof.adaptor_point_compressed)
        /\ IsSqrtHintOf(proof.second_point_sqrt_hint, proof.second_point_compressed)
        /\ IsSqrtHintOf(proof.r1_sqrt_hint, proof.r1_compressed)
        /\ IsSqrtHintOf(proof.r2_sqrt_hint, proof.r2_compressed)

-----------------------------------------------------------------------------
(* Claims about the stored challenge.                                       *)

\* C26 (as claimed): verify_blake2s_digest and
\* compute_dleq_challenge_python give the same verdict on whether the
\* challenge stored in a test vector equals the recomputed one: both map
\* the stored hex string to the same integer.
C26_SameVerdict ==
    Len(t_results) = 2 => t_results[1].matches = t_results[2].matches

-----------------------------------------------------------------------------
(* Claims about test_vectors.json.                                          *)

\* the x of the point that the <point>_compressed key of the file encodes
IsXOfPoint(v, compressed) ==
    LET y == IntFromBytesLE(compressed) % BIT255
        sign == (IntFromBytesLE(compressed) \div BIT255) % 2
    IN  v \in 0..(P - 1) /\ OnCurve(v, y) /\ v % 2 = sign

\* C27 (as claimed): after any sequence of runs of generate_sqrt_hints.main
\* and regenerate_garaga_hints.main, every <point>_sqrt_hint_u256 entry of
\* test_vectors.json holds low and high in the form the readers parse with
\* int(value, 16) and denotes the x of the point, whichever tool wrote
\* last, and the keys other than the hints are unchanged.
C27_HintEntriesOfFile ==
    t_results[2] # "" =>
        /\ \A n \in PointNames :
             LET entry == t_results[1].sqrt_hint_u256[n]
             IN  /\ int_base16(entry.low) # -1
                 /\ int_base16(entry.high) # -1
                 /\ IsXOfPoint(int_base16(entry.low) + int_base16(entry.high) * U128,
                               t_results[1].compressed[n])
        /\ t_results[1].compressed = t_args[1].compressed
        /\ t_results[1].challenge = t_args[1].challenge

-----------------------------------------------------------------------------
(* Claims about verify_fake_glv_decomposition.main.                         *)

-----------------------------------------------------------------------------
(* Claims about the scalar of a hashlock.                                   *)

\* C29 (as claimed): hashlock_to_scalar and generate_ed25519_test_data
\* derive the same scalar from a 32-byte digest (the sum of h_i * 2^(32 i)
\* mod l), and their words are those of hashlock_to_u32_array.
C29_SameHashlockScalar ==
    \A i, j \in 1..Len(t_results) :
        /\ t_results[i].words = t_results[j].words
        /\ (t_results[i].scalar # -1 /\ t_results[j].scalar # -1)
              => t_results[i].scalar = t_results[j].scalar

-----------------------------------------------------------------------------
(* Claims about discover_sqrt_hints.                                        *)

\* n has a square root mod p
HasRoot(n, p) == \E r \in 0..(p - 1) : (r * r) % p = n % p

\* C30 (as claimed): tonelli_shanks_sqrt(n, p) returns, for an odd prime p
\* and 0 <= n < p, an R with R^2 = n (mod p) whenever a root exists
\* (n = 0 included) and None only when none exists; so
\* compute_candidate_sqrt_hints returns the empty list only for an
\* encoding whose x^2 has no root.
C30_TonelliShanks ==
    /\ t_routine = "tonelli_shanks_sqrt" =>
          IF HasRoot(t_args[2], t_args[3])
          THEN /\ t_results[1] # -1
               /\ (t_results[1] * t_results[1]) % t_args[3] = t_args[2]
          ELSE t_results[1] = -1
    /\ t_routine = "compute_candidate_sqrt_hints" =>
          (t_results[1] = <<>> => ~HasRoot(XSquared(compressed_to_y(t_args[2])), P))

====
